---- MODULE Spec2Model ----
(***************************************************************************)
(* A model of the quake engine: task/call metadata store, parse-time       *)
(* registration of def-task, two-phase evaluation (decl bodies, then run   *)
(* bodies), run-tree construction and the worker scheduler of Engine::run. *)
(*                                                                         *)
(* Option<T> values are modelled as sequences of length 0 (None) or 1      *)
(* (Some(x)).  Ids are 0-based as in the code; sequences are 1-based, so   *)
(* the element with id i sits at position i+1.                             *)
(***************************************************************************)
EXTENDS Integers, Sequences, FiniteSets, TLC

\* ------------------------------------------------------------------ bounds
\* Largest number of task calls one process may register in the model.
MaxCalls == 8
\* Largest modification time the model's file system hands out.
MaxTime == 4
\* Longest list of sources or of artifacts is_dirty is applied to on its own.
MaxPaths == 2
\* Depth of the deepest directory Project::locate is started from.
MaxDepth == 2
\* Longest dependency list generate_run_tree is applied to on its own.
MaxDeps == 2

\* ------------------------------------------------------------- Option<T>
None == <<>>
Some(x) == <<x>>
IsSome(o) == Len(o) = 1
Unwrap(o) == o[1]

\* --------------------------------------------------------- sequence helpers
Range(s) == {s[i] : i \in 1..Len(s)}

RECURSIVE SeqMax(_)
SeqMax(s) == IF s = <<>> THEN 0
             ELSE LET m == SeqMax(Tail(s)) IN IF Head(s) > m THEN Head(s) ELSE m

\* ================================================================== scripts
\* A build script is a sequence of top-level def-task calls in surface form:
\* a name, the --concurrent switch, the --decl switch and one or two
\* closures; a closure is a sequence of commands.
Dep(n) == [op |-> "depends", name |-> n, args |-> <<>>]
Src(p) == [op |-> "sources", paths |-> p]
Prod(p) == [op |-> "produces", paths |-> p]
Touch(p) == [op |-> "touch", path |-> p]
\* An external command: it may succeed, raise an error, or, as the last
\* command of a closure, leave a non-zero exit code.
Ext == [op |-> "external"]
\* subtask name {run}, written at span sp
Sub(n, sp) == [op |-> "subtask", name |-> n, span |-> sp]
\* A def-task call written inside a body.
DefTaskCmd(def) == [op |-> "def_task", def |-> def]
\* Text the host parser rejects.
Garbage == [op |-> "garbage"]

\* def-task name {run}
Def1(n, run) == [name |-> n, concurrent |-> FALSE, declarative |-> FALSE,
                 closures |-> <<run>>]
\* def-task name {decl} {run}
Def2(n, decl, run) == [name |-> n, concurrent |-> FALSE, declarative |-> FALSE,
                       closures |-> <<decl, run>>]

\* def-task --decl name {decl}
DefDecl1(n, decl) == [name |-> n, concurrent |-> FALSE, declarative |-> TRUE,
                      closures |-> <<decl>>]
\* def-task --decl name {body} {extra}
DefDecl2(n, body, extra) == [name |-> n, concurrent |-> FALSE, declarative |-> TRUE,
                             closures |-> <<body, extra>>]

\* def-task name with no closure at all
Def0(n) == [name |-> n, concurrent |-> FALSE, declarative |-> FALSE,
            closures |-> <<>>]

\* A top-level item of a script is a def-task call or another command.
IsDef(item) == "closures" \in DOMAIN item

Names == {"A", "B", "C", "D"}
Paths == {"s.txt", "a.out", "b.out"}

\* C depends on B, B depends on A.
Chain == << Def1("A", <<>>), Def2("B", <<Dep("A")>>, <<>>),
            Def2("C", <<Dep("B")>>, <<>>) >>
\* D depends on B and C, both depend on A.
Diamond == << Def1("A", <<>>), Def2("B", <<Dep("A")>>, <<>>),
              Def2("C", <<Dep("A")>>, <<>>),
              Def2("D", <<Dep("B"), Dep("C")>>, <<>>) >>
\* D depends on A, B and C (fan-out and barrier, by the flags chosen).
Fan == << Def1("A", <<>>), Def1("B", <<>>), Def1("C", <<>>),
          Def2("D", <<Dep("A"), Dep("B"), Dep("C")>>, <<>>) >>
\* A depends on B and B depends on A.
Cycle == << Def2("A", <<Dep("B")>>, <<>>), Def2("B", <<Dep("A")>>, <<>>) >>
\* The same cycle with the definitions in the other order.
CycleRev == << Def2("B", <<Dep("A")>>, <<>>), Def2("A", <<Dep("B")>>, <<>>) >>
\* A task naming itself.
SelfDep == << Def2("A", <<Dep("A")>>, <<>>) >>
\* Two definitions of the same name.
Duplicate == << Def1("A", <<>>), Def1("A", <<>>), Def2("B", <<Dep("A")>>, <<>>) >>
\* A task with declared sources and artifacts whose run body writes the
\* artifact, and a dependent that calls it twice with the same arguments.
Stale == << Def2("A", <<Src(<<"s.txt">>), Prod(<<"a.out">>)>>, <<Touch("a.out")>>),
            Def2("B", <<Dep("A"), Dep("A")>>, <<>>) >>

\* The chain, the diamond and the fan with external commands in their bodies.
ChainX == << Def1("A", <<Ext>>), Def2("B", <<Ext, Dep("A")>>, <<Ext>>),
             Def2("C", <<Dep("B"), Ext>>, <<Ext>>) >>
DiamondX == << Def1("A", <<Ext>>), Def2("B", <<Dep("A"), Ext>>, <<>>),
               Def2("C", <<Dep("A")>>, <<>>),
               Def2("D", <<Dep("B"), Dep("C")>>, <<>>) >>
FanX == << Def1("A", <<Ext>>), Def1("B", <<Ext>>), Def1("C", <<Ext>>),
           Def2("D", <<Dep("A"), Dep("B"), Dep("C")>>, <<Ext>>) >>

\* Both tasks declare sources and artifacts and write their artifacts.
Clean == << Def2("A", <<Src(<<"s.txt">>), Prod(<<"a.out">>)>>, <<Touch("a.out")>>),
            Def2("B", <<Dep("A"), Src(<<"a.out">>), Prod(<<"b.out">>)>>,
                 <<Touch("b.out")>>) >>
\* Sources and artifacts are declared, the run body writes nothing.
NoBuild == << Def2("A", <<Src(<<"s.txt">>), Prod(<<"a.out">>)>>, <<>>) >>
\* Commands of decl bodies used in run bodies.
RunScope == << Def1("A", <<Touch("a.out"), Prod(<<"a.out">>)>>),
               Def1("B", <<Dep("A")>>),
               Def1("C", <<Sub("D", <<3, 1, 1>>)>>),
               Def1("D", <<Src(<<"s.txt">>)>>) >>
\* Commands of decl bodies used at the top level of the script.
TopSources == << Def1("A", <<>>), Src(<<"s.txt">>) >>
TopDepends == << Def1("A", <<>>), Dep("A") >>
TopSubtask == << Sub("B", <<1>>), Def1("A", <<>>) >>
TopProduces == << Def1("A", <<>>), Prod(<<"a.out">>), Def1("B", <<>>) >>
\* def-task calls inside a decl body and inside a run body.
NestedDecl == << Def2("A", <<DefTaskCmd(Def1("B", <<>>))>>, <<>>) >>
NestedRun == << Def1("A", <<DefTaskCmd(Def2("B", <<Dep("A")>>, <<>>))>>) >>
\* A subtask declared by a decl body; the dependent calls the task twice.
SubScript == << Def2("A", <<Sub("C", <<1, 1, 1>>)>>, <<>>), Def2("B", <<Dep("A"), Dep("A")>>, <<>>) >>
\* A declarative task with one body, and one with a body too many.
DeclOnly == << Def1("A", <<>>), DefDecl1("B", <<Dep("A")>>) >>
DeclExtra == << Def1("A", <<>>), DefDecl2("B", <<Dep("A")>>, <<>>) >>
\* The second def-task has no body.
NoBody == << Def1("A", <<>>), Def0("B") >>
\* A script the host parser rejects in part.
Unparsable == << Def1("A", <<>>), Garbage >>

Skeletons == {Chain, Diamond, Fan, Cycle, CycleRev, SelfDep, Duplicate, Stale,
              ChainX, DiamondX, FanX, Clean, NoBuild, RunScope, TopSources,
              TopDepends, TopSubtask, TopProduces, NestedDecl, NestedRun, SubScript,
              DeclOnly, DeclExtra, NoBody, Unparsable}

HasExternal(block) == \E k \in 1..Len(block) : block[k].op = "external"
EndsWithExternal(block) == block # <<>> /\ block[Len(block)].op = "external"

\* The script with the --concurrent switch of each def-task set by fl.
WithFlags(sk, fl) ==
    [i \in 1..Len(sk) |->
       IF IsDef(sk[i]) THEN [sk[i] EXCEPT !.concurrent = fl[sk[i].name]] ELSE sk[i]]

\* The names of the tasks defined at the top level of the script.
ScriptNames(sk) == {sk[i].name : i \in {j \in 1..Len(sk) : IsDef(sk[j])}}
\* The paths the bodies of the script's top-level tasks name.
CommandPaths(cmd) == IF cmd.op \in {"sources", "produces"} THEN Range(cmd.paths)
                     ELSE IF cmd.op = "touch" THEN {cmd.path} ELSE {}
MentionedPaths(sk) ==
    UNION {UNION {UNION {CommandPaths(sk[i].closures[j][k]) :
                           k \in 1..Len(sk[i].closures[j])} :
                    j \in 1..Len(sk[i].closures)} :
             i \in {x \in 1..Len(sk) : IsDef(sk[x])}}


\* =========================================================== metadata store
DefaultMeta == [dependencies |-> <<>>, sources |-> <<>>, artifacts |-> <<>>]

\* Position (0-based id) of the first stub named n, or -1.
FindTaskStubId(stubs, n) ==
    IF \E i \in 1..Len(stubs) : stubs[i].name = n
    THEN (CHOOSE i \in 1..Len(stubs) :
             /\ stubs[i].name = n
             /\ \A j \in 1..(i-1) : stubs[j].name # n) - 1
    ELSE -1

\* add_task_stub that takes a definition of a registered name for done.
AddTaskStubSilent(stubs, stub) ==
    IF FindTaskStubId(stubs, stub.name) >= 0
    THEN [ok |-> TRUE, id |-> FindTaskStubId(stubs, stub.name), stubs |-> stubs,
          existing_span |-> <<>>]
    ELSE [ok |-> TRUE, id |-> Len(stubs), stubs |-> Append(stubs, stub),
          existing_span |-> <<>>]

\* add_task_stub: refuse a name already present, else push and return the
\* previous length as the id.
AddTaskStub(stubs, stub) ==
    IF FindTaskStubId(stubs, stub.name) >= 0
    THEN [ok |-> FALSE, id |-> FindTaskStubId(stubs, stub.name), stubs |-> stubs,
          existing_span |-> stubs[FindTaskStubId(stubs, stub.name) + 1].span]
    ELSE [ok |-> TRUE, id |-> Len(stubs), stubs |-> Append(stubs, stub),
          existing_span |-> <<>>]

\* The entry register_task_call pushes, with the metadata already present.
NewTaskCallPrefilled(task_id, arguments) ==
    [task_id |-> task_id, arguments |-> arguments, metadata |-> Some(DefaultMeta)]

\* The entry register_task_call pushes: no metadata yet.
NewTaskCall(task_id, arguments) ==
    [task_id |-> task_id, arguments |-> arguments, metadata |-> None]

\* register_task_call returning an existing identical call when there is one.
RegisterTaskCallDedup(calls, task_id, arguments) ==
    IF \E i \in 1..Len(calls) :
          calls[i].task_id = task_id /\ calls[i].arguments = arguments
    THEN [id |-> (CHOOSE i \in 1..Len(calls) :
                     calls[i].task_id = task_id /\ calls[i].arguments = arguments) - 1,
          calls |-> calls]
    ELSE [id |-> Len(calls), calls |-> Append(calls, NewTaskCall(task_id, arguments))]

\* register_task_call: always push; the id is the new length minus one.
RegisterTaskCall(calls, task_id, arguments) ==
    [id |-> Len(Append(calls, NewTaskCall(task_id, arguments))) - 1,
     calls |-> Append(calls, NewTaskCall(task_id, arguments))]

\* insert_task_call_metadata
InsertTaskCallMetadata(calls, call_id, md) ==
    [calls EXCEPT ![call_id + 1].metadata = Some(md)]

\* A reader that sees the empty record for every call.
CallMetaDefault(calls, call_id) == DefaultMeta

\* The metadata a reader sees for a call: the stored value, or the empty
\* record a call starts with.
CallMeta(calls, call_id) ==
    IF IsSome(calls[call_id + 1].metadata)
    THEN Unwrap(calls[call_id + 1].metadata) ELSE DefaultMeta

\* ============================================================== parse phase
TaskNotFound(n) == [kind |-> "TaskNotFound", name |-> n]
DuplicateDefinition(n, sp) ==
    [kind |-> "TaskDuplicateDefinition", name |-> n, existing_span |-> sp]
DeclTaskHasExtraBody(n) == [kind |-> "DeclTaskHasExtraBody", name |-> n]
ParseError == [kind |-> "ParseError"]

RECURSIVE TransformCommand(_, _)
\* transform_depends on one command: a depends naming a registered task
\* becomes that task's hidden DependsTask command, which carries the task id
\* it was created with.  The walk over the block descends into the closures
\* of a def-task call written in it.
TransformCommand(cmd, stubs) ==
    IF cmd.op = "depends" /\ FindTaskStubId(stubs, cmd.name) >= 0
    THEN [op |-> "depends_task",
          task_id |-> stubs[FindTaskStubId(stubs, cmd.name) + 1].depends_decl,
          args |-> cmd.args]
    ELSE IF cmd.op = "def_task"
         THEN [cmd EXCEPT !.def.closures =
                  [j \in 1..Len(cmd.def.closures) |->
                     [k \in 1..Len(cmd.def.closures[j]) |->
                        TransformCommand(cmd.def.closures[j][k], stubs)]]]
         ELSE cmd

TransformBlock(block, stubs) ==
    [k \in 1..Len(block) |-> TransformCommand(block[k], stubs)]

\* transform_depends with its TaskNotFound errors swallowed.
TransformErrorsDropped(block, stubs) == <<>>

\* The TaskNotFound errors transform_depends raises over a block.
RECURSIVE TransformErrors(_, _)
TransformErrors(block, stubs) ==
    IF block = <<>> THEN <<>>
    ELSE (IF Head(block).op = "depends" /\ FindTaskStubId(stubs, Head(block).name) < 0
          THEN <<TaskNotFound(Head(block).name)>>
          ELSE IF Head(block).op = "def_task"
               THEN LET cl == Head(block).def.closures
                    IN TransformErrors(cl[1], stubs)
                       \o (IF Len(cl) = 2 THEN TransformErrors(cl[2], stubs) ELSE <<>>)
               ELSE <<>>)
         \o TransformErrors(Tail(block), stubs)

\* The assignment of closures to bodies with the declarative flag left unread.
AssignBodiesNoFlag(def) ==
    IF Len(def.closures) = 2
    THEN [run_body |-> Some(def.closures[2]), decl_body |-> Some(def.closures[1]),
          decl_at |-> 1, late |-> <<>>]
    ELSE [run_body |-> Some(def.closures[1]), decl_body |-> None, decl_at |-> 0,
          late |-> <<>>]

\* Which closure is which body: [run_body, decl_body] as Options; decl_at is
\* the position of the decl body among the closures, 0 when there is none.
AssignBodies(def) ==
    IF Len(def.closures) = 2
    THEN IF def.declarative
         THEN [run_body |-> Some(def.closures[1]), decl_body |-> None, decl_at |-> 0,
               late |-> <<DeclTaskHasExtraBody(def.name)>>]
         ELSE [run_body |-> Some(def.closures[2]), decl_body |-> Some(def.closures[1]),
               decl_at |-> 1, late |-> <<>>]
    ELSE IF def.declarative
         THEN [run_body |-> None, decl_body |-> Some(def.closures[1]), decl_at |-> 1,
               late |-> <<>>]
         ELSE [run_body |-> Some(def.closures[1]), decl_body |-> None, decl_at |-> 0,
               late |-> <<>>]

\* parse_def_task rewriting the depends calls against the tasks registered
\* so far and the task being defined.
ParseDefTaskSeesItself(def, stubs, span) ==
    IF def.closures = <<>>
    THEN [stubs |-> stubs, errors |-> <<>>, closures |-> <<>>]
    ELSE
    LET b == AssignBodies(def)
        own == [name |-> def.name, concurrent |-> def.concurrent,
                span |-> span, depends_decl |-> Len(stubs),
                decl_body |-> None, run_body |-> b.run_body]
        seen == IF FindTaskStubId(stubs, def.name) >= 0 THEN stubs ELSE Append(stubs, own)
        decl == IF IsSome(b.decl_body)
                THEN Some(TransformBlock(Unwrap(b.decl_body), seen)) ELSE None
        late == b.late \o (IF IsSome(b.decl_body)
                           THEN TransformErrors(Unwrap(b.decl_body), seen) ELSE <<>>)
        reg == AddTaskStub(stubs, [own EXCEPT !.decl_body = decl])
    IN [stubs |-> reg.stubs,
        errors |-> late \o (IF reg.ok THEN <<>>
                            ELSE <<DuplicateDefinition(def.name, reg.existing_span)>>),
        closures |-> [j \in 1..Len(def.closures) |->
                        IF j = b.decl_at THEN Unwrap(decl) ELSE def.closures[j]]]

\* parse_def_task on the def-task call at span: assign the bodies, create the
\* hidden DependsTask command with the next task id, rewrite the depends
\* calls of the decl body against the tasks registered so far, then register
\* the task.  closures are the call's closures after the rewrite.
ParseDefTask(def, stubs, span) ==
    IF def.closures = <<>>
    THEN \* no first closure: failure, nothing is registered
         [stubs |-> stubs, errors |-> <<>>, closures |-> <<>>]
    ELSE
    LET b == AssignBodies(def)
        decl == IF IsSome(b.decl_body)
                THEN Some(TransformBlock(Unwrap(b.decl_body), stubs)) ELSE None
        late == b.late \o (IF IsSome(b.decl_body)
                           THEN TransformErrors(Unwrap(b.decl_body), stubs) ELSE <<>>)
        reg == AddTaskStub(stubs, [name |-> def.name, concurrent |-> def.concurrent,
                                   span |-> span, depends_decl |-> Len(stubs),
                                   decl_body |-> decl, run_body |-> b.run_body])
    IN [stubs |-> reg.stubs,
        errors |-> late \o (IF reg.ok THEN <<>>
                            ELSE <<DuplicateDefinition(def.name, reg.existing_span)>>),
        closures |-> [j \in 1..Len(def.closures) |->
                        IF j = b.decl_at THEN Unwrap(decl) ELSE def.closures[j]]]

RECURSIVE ParseCalls(_, _, _)
RECURSIVE ParseCallsInBlock(_, _, _, _)

\* modify_calls_in_block for def-task over the commands k.. of a closure:
\* acc is [stubs, errors] so far, span the place of the closure.
ParseCallsInBlock(block, k, span, acc) ==
    IF k > Len(block) THEN acc
    ELSE IF block[k].op = "def_task"
         THEN LET r == ParseCalls(block[k].def, acc.stubs, Append(span, k))
              IN ParseCallsInBlock(block, k + 1, span,
                                   [stubs |-> r.stubs, errors |-> acc.errors \o r.errors])
         ELSE ParseCallsInBlock(block, k + 1, span, acc)

\* modify_calls_in_expr on a def-task call: parse_def_task on the call
\* itself, then the walk continues into its arguments, which reaches the
\* def-task calls written in its closures.
ParseCalls(def, stubs, span) ==
    LET r == ParseDefTask(def, stubs, span)
        first == ParseCallsInBlock(r.closures[1], 1, Append(span, 1),
                                   [stubs |-> r.stubs, errors |-> r.errors])
    IN IF Len(r.closures) = 2
       THEN ParseCallsInBlock(r.closures[2], 1, Append(span, 2), first)
       ELSE IF Len(r.closures) = 1 THEN first
       ELSE [stubs |-> r.stubs, errors |-> r.errors]

\* What the first-pass parse and parse_metadata record for one top-level
\* item of the script.
ParseItem(item, stubs, span) ==
    IF IsDef(item)
    THEN LET r == ParseCalls(item, stubs, span)
         IN [stubs |-> r.stubs,
             \* a def-task call without its closures is a parse error of the host
             errors |-> (IF item.closures = <<>> THEN <<ParseError>> ELSE <<>>)
                        \o r.errors]
    ELSE [stubs |-> stubs,
          errors |-> IF item.op = "garbage" THEN <<ParseError>> ELSE <<>>]


\* ================================================================= commands
\* The error get_scope_id raises (the invalid-scope diagnostic).
UnknownScope == [kind |-> "UnknownScope"]

\* get_scope_id: the scope-id variable converts to a scope id only when it
\* is not negative (a stack without the variable is modelled as -1).
GetScopeId(sv) == IF sv >= 0 THEN [ok |-> TRUE, id |-> sv] ELSE [ok |-> FALSE, id |-> -1]

\* check_in_scope letting every caller through.
CheckInScopeAlways(sv) == TRUE

\* check_in_scope
CheckInScope(sv) == GetScopeId(sv).ok

\* The scope the scope-id variable names.
ScopeOf(scs, sv) == CHOOSE sc \in scs : sc.id = sv

\* scope_metadata_mut with a dependency list that keeps its last entry only.
WithScopeMetaLastOnly(scs, sv, md) ==
    (scs \ {ScopeOf(scs, sv)})
       \cup {[ScopeOf(scs, sv) EXCEPT
                !.meta = [md EXCEPT !.dependencies =
                             IF @ = <<>> THEN @ ELSE <<@[Len(@)]>>]]}

\* The scopes after the metadata of the scope the variable names has been
\* changed to md (scope_metadata_mut).
WithScopeMeta(scs, sv, md) ==
    (scs \ {ScopeOf(scs, sv)}) \cup {[ScopeOf(scs, sv) EXCEPT !.meta = md]}

\* The time a file written now gets: newer than every existing file.
NextTime(fsys) == (CHOOSE t \in {fsys[p] : p \in DOMAIN fsys} :
                     \A p \in DOMAIN fsys : fsys[p] <= t) + 1

\* The task of a subtask command without its closure.
SubtaskStubNoBody(cmd) == [name |-> cmd.name, concurrent |-> FALSE, span |-> cmd.span,
                           depends_decl |-> -1, decl_body |-> None, run_body |-> None]

\* The task a subtask command registers: no hidden depends command, no decl
\* body, the closure as run body.
SubtaskStub(cmd) == [name |-> cmd.name, concurrent |-> FALSE, span |-> cmd.span,
                     depends_decl |-> -1, decl_body |-> None, run_body |-> Some(<<>>)]

Failed(err, env) == [ok |-> FALSE, error |-> Some(err), env |-> env]
Done(env) == [ok |-> TRUE, error |-> None, env |-> env]

\* The run method of one command, evaluated on a stack whose scope-id
\* variable is sv, in the environment env = [scopes, calls, stubs, files].
ExecCommand(cmd, sv, env) ==
    CASE cmd.op = "depends" ->
           IF CheckInScope(sv) THEN Done(env) ELSE Failed(UnknownScope, env)
      [] cmd.op = "depends_task" ->
           IF ~CheckInScope(sv) THEN Failed(UnknownScope, env)
           ELSE LET r == RegisterTaskCall(env.calls, cmd.task_id, cmd.args)
                    e1 == [env EXCEPT !.calls = r.calls]
                IN IF ~GetScopeId(sv).ok THEN Failed(UnknownScope, e1)
                   ELSE LET md == ScopeOf(env.scopes, sv).meta
                        IN Done([e1 EXCEPT !.scopes = WithScopeMeta(env.scopes, sv,
                                    [md EXCEPT !.dependencies = Append(@, r.id)])])
      [] cmd.op = "sources" ->
           IF ~GetScopeId(sv).ok THEN Failed(UnknownScope, env)
           ELSE LET md == ScopeOf(env.scopes, sv).meta
                IN Done([env EXCEPT !.scopes = WithScopeMeta(env.scopes, sv,
                            [md EXCEPT !.sources = @ \o cmd.paths])])
      [] cmd.op = "produces" ->
           IF ~GetScopeId(sv).ok THEN Failed(UnknownScope, env)
           ELSE LET md == ScopeOf(env.scopes, sv).meta
                IN Done([env EXCEPT !.scopes = WithScopeMeta(env.scopes, sv,
                            [md EXCEPT !.artifacts = @ \o cmd.paths])])
      [] cmd.op = "subtask" ->
           IF ~CheckInScope(sv) THEN Failed(UnknownScope, env)
           ELSE LET reg == AddTaskStub(env.stubs, SubtaskStub(cmd))
                IN IF ~reg.ok
                   THEN Failed(DuplicateDefinition(cmd.name, reg.existing_span), env)
                   ELSE LET r == RegisterTaskCall(env.calls, reg.id, <<>>)
                            e1 == [env EXCEPT !.stubs = reg.stubs, !.calls = r.calls]
                        IN IF ~GetScopeId(sv).ok THEN Failed(UnknownScope, e1)
                           ELSE LET md == ScopeOf(env.scopes, sv).meta
                                IN Done([e1 EXCEPT !.scopes = WithScopeMeta(env.scopes, sv,
                                           [md EXCEPT !.dependencies = Append(@, r.id)])])
      [] cmd.op = "touch" ->
           Done([env EXCEPT !.files = [@ EXCEPT ![cmd.path] = NextTime(env.files)]])
      [] OTHER -> Done(env)

\* The results eval_block can give for a block on a stack whose scope-id
\* variable is sv: "true", "false" (a non-zero exit code left by the last
\* command) or "err" (a command raised an error), each with the environment
\* it leaves.  A quake command behaves as its run method says; an external
\* command succeeds or fails.
RECURSIVE EvalOutcomes(_, _, _)
EvalOutcomes(block, sv, env) ==
    IF block = <<>> THEN {[status |-> "true", env |-> env]}
    ELSE IF Head(block).op = "external"
         THEN {[status |-> "err", env |-> env]}
              \cup (IF Tail(block) = <<>> THEN {[status |-> "false", env |-> env]} ELSE {})
              \cup EvalOutcomes(Tail(block), sv, env)
         ELSE LET r == ExecCommand(Head(block), sv, env)
              IN IF r.ok THEN EvalOutcomes(Tail(block), sv, r.env)
                 ELSE {[status |-> "err", env |-> r.env]}

\* ================================================================= run tree
Node(c, ch) == [call_id |-> c, children |-> ch]

RECURSIVE GenerateRunTreeInner(_, _, _)
RECURSIVE GenerateChildren(_, _, _, _)

\* The loop without the shared included set: what a sibling's subtree
\* included is forgotten when the next dependency is looked at.
RECURSIVE GenerateChildrenForgetful(_, _, _, _)
GenerateChildrenForgetful(deps, calls, included, acc) ==
    IF deps = <<>> THEN [children |-> acc, included |-> included]
    ELSE IF Head(deps) \in included
         THEN GenerateChildrenForgetful(Tail(deps), calls, included, acc)
         ELSE LET r == GenerateRunTreeInner(Head(deps), calls, included)
              IN GenerateChildrenForgetful(Tail(deps), calls, included, Append(acc, r.node))

\* The loop over the dependency list in generate_run_tree_inner: a dependency
\* already in the included set is skipped, any other is expanded (which adds
\* to the included set) and pushed as a child.
GenerateChildren(deps, calls, included, acc) ==
    IF deps = <<>> THEN [children |-> acc, included |-> included]
    ELSE IF Head(deps) \in included
         THEN GenerateChildren(Tail(deps), calls, included, acc)
         ELSE LET r == GenerateRunTreeInner(Head(deps), calls, included)
              IN GenerateChildren(Tail(deps), calls, r.included, Append(acc, r.node))

\* generate_run_tree_inner that never looks at the dependencies.
GenerateRunTreeInnerLeaf(call_id, calls, included) ==
    [node |-> Node(call_id, <<>>), included |-> included \cup {call_id}]

\* generate_run_tree_inner: returns the node and the updated included set.
GenerateRunTreeInner(call_id, calls, included) ==
    LET inc == included \cup {call_id}
    IN IF ~IsSome(calls[call_id + 1].metadata)
       THEN [node |-> Node(call_id, <<>>), included |-> inc]
       ELSE LET r == GenerateChildren(Unwrap(calls[call_id + 1].metadata).dependencies,
                                      calls, inc, <<>>)
            IN [node |-> Node(call_id, r.children), included |-> r.included]

\* generate_run_tree
GenerateRunTree(call_id, calls) == GenerateRunTreeInner(call_id, calls, {}).node

RECURSIVE Flatten(_)
RECURSIVE FlattenAll(_)
FlattenAll(children) ==
    IF children = <<>> THEN <<>>
    ELSE Flatten(Head(children)) \o FlattenAll(Tail(children))

\* flatten pushing the node before its children.
FlattenPreOrder(node) == <<node>> \o FlattenAll(node.children)

\* RunNode::flatten: the flattened children in order, then the node itself.
Flatten(node) == Append(FlattenAll(node.children), node)

\* The nodes of a tree.
RECURSIVE NodesIn(_)
NodesIn(n) == {n} \cup UNION {NodesIn(n.children[i]) : i \in 1..Len(n.children)}

\* The call ids of a node and all its descendants.
RECURSIVE SubtreeIds(_)
SubtreeIds(node) ==
    {node.call_id} \cup UNION {SubtreeIds(node.children[i]) : i \in 1..Len(node.children)}

ChildIds(node) == {node.children[i].call_id : i \in 1..Len(node.children)}

\* =============================================================== dirtiness
\* latest_timestamp finding none of the paths.
LatestTimestampNone(paths, files) == 0

\* latest_timestamp: the greatest modification time among the existing
\* paths; Option<SystemTime> is encoded with None as 0, below every time.
LatestTimestamp(paths, files) == SeqMax([i \in 1..Len(paths) |-> files[paths[i]]])

\* is_dirty comparing with "not older" in place of "newer".
IsDirtyNotOlder(md, files) ==
    IF md.sources = <<>> \/ md.artifacts = <<>> THEN TRUE
    ELSE LatestTimestamp(md.sources, files) >= LatestTimestamp(md.artifacts, files)

\* is_dirty
IsDirty(md, files) ==
    IF md.sources = <<>> \/ md.artifacts = <<>> THEN TRUE
    ELSE LatestTimestamp(md.sources, files) > LatestTimestamp(md.artifacts, files)

\* ================================================================ scheduler
\* The concurrent flag read as unset for every task.
IsConcurrentNever(calls, stubs, call_id) == FALSE

\* The concurrent flag of the task of a call.
IsConcurrent(calls, stubs, call_id) == stubs[calls[call_id + 1].task_id + 1].concurrent

TaskName(calls, stubs, call_id) == stubs[calls[call_id + 1].task_id + 1].name

\* abort_tree that does not descend into the children.
AbortTreeOwnOnly(node, st) == [st EXCEPT !.ctrlc = @ \cup ({node.call_id} \cap st.handles)]

\* abort_tree: the workers of the node and of its descendants that are in
\* the handles map get their cancellation flag set; the map keeps its keys.
AbortTree(node, st) == [st EXCEPT !.ctrlc = @ \cup (SubtreeIds(node) \cap st.handles)]

\* spawn_task after an iterator that advanced past one more node.
SpawnTaskSkipsNext(node, st) ==
    [AbortTree(node, st) EXCEPT !.next = @ + 2, !.handles = @ \cup {node.call_id}]

\* spawn_task: abort_tree(node), spawn the worker, insert its handle.  st is
\* the scheduler state [next, handles, ctrlc]; the iterator has advanced.
SpawnTask(node, st) ==
    [AbortTree(node, st) EXCEPT !.next = @ + 1, !.handles = @ \cup {node.call_id}]

\* spawn_tasks! without the check for children still in flight.
RECURSIVE SpawnTasksNoChildCheck(_, _, _, _)
SpawnTasksNoChildCheck(order, st, calls, stubs) ==
    IF st.next > Len(order) THEN st
    ELSE IF ~IsConcurrent(calls, stubs, order[st.next].call_id)
         THEN SpawnTask(order[st.next], st)
         ELSE SpawnTasksNoChildCheck(order, SpawnTask(order[st.next], st), calls, stubs)

\* spawn_tasks!: while the next node has no child in the handles map, spawn
\* it; stop after spawning a node whose task is not concurrent.
RECURSIVE SpawnTasks(_, _, _, _)
SpawnTasks(order, st, calls, stubs) ==
    IF st.next > Len(order) THEN st
    ELSE IF ChildIds(order[st.next]) \cap st.handles # {}
         THEN st
         ELSE IF ~IsConcurrent(calls, stubs, order[st.next].call_id)
              THEN SpawnTask(order[st.next], st)
              ELSE SpawnTasks(order, SpawnTask(order[st.next], st), calls, stubs)

\* abort_all that sets the flags and leaves the map as it is.
AbortAllNoDrain(st) == [st EXCEPT !.ctrlc = @ \cup st.handles]

\* abort_all: every worker in the map gets its flag set; the map is drained.
AbortAll(st) == [st EXCEPT !.ctrlc = @ \cup st.handles, !.handles = {}]

\* ==================================================================== state
VARIABLES
    script,       \* the build script (sequence of def-task calls)
    task_name,    \* the task named on the command line
    force,        \* EngineOptions.force
    prev_result,  \* result of the previous process on these files, none at first
    start_files,  \* the modification times the process started with
    files,        \* modification time of each path, 0 when it does not exist
    phase,        \* where the process is: parse, loaded, populate, tree, spawn, join,
                  \* exit, killed
    parse_idx,    \* next def-task call parse_metadata visits
    errors,       \* errors collected while parsing
    task_stubs,   \* Metadata.task_stubs
    task_calls,   \* Metadata.task_calls
    scopes,       \* State.scopes: records [id, call_id, meta]
    scope_var,    \* the scope-id variable on the stack, -1 when no scope
    frames,       \* activation records of populate_metadata_for_call_id
    root_call,    \* Some(call id) of the call registered by run
    populated,    \* what populate_metadata_for_call_id returned to
                  \* populate_metadata_for_call: none, true, false, err
    build_tree,   \* Some(run tree) once generate_run_tree has run
    task_iter,    \* flattened run tree (order) and iterator position (next)
    handles,      \* key set of the handles map
    ctrlc,        \* call ids whose worker had its cancellation flag set
    task_pool,    \* worker of each call: none, spawned, running, ok, fail, skipped
                  \* (finished, not yet joined), joined (with success), failed
    result,       \* result of load/run: none, Ok, ParseFailed, EvalFailed, TaskFailed,
                  \* Internal, Other
    exit_code,    \* exit code of the process, -1 while it has not terminated
    project,      \* project discovery: the directory entries, the directory asked
                  \* for, the directory locate is at, and the Project found
    failed_task,  \* Some(task name) carried by TaskFailed
    log,          \* the worker events emitted so far: <<kind, call id>>
    state_lock,   \* the RwLock around State: its writer and its readers
    stacks,       \* per thread, the routines active on it: <<[routine, pc]>>
    start_calls   \* Metadata.task_calls when the operation under study began

vars == <<script, task_name, force, prev_result, start_files, files, phase, parse_idx, errors,
          task_stubs, task_calls, scopes, scope_var, frames, root_call, populated,
          build_tree, task_iter, handles, ctrlc, task_pool, result, exit_code,
          project, failed_task, log, state_lock, stacks, start_calls>>

storeVars == <<task_stubs, task_calls>>
scopeVars == <<scopes, scope_var>>
schedVars == <<build_tree, task_iter, handles, ctrlc, task_pool, failed_task, log>>
inputVars == <<script, task_name, force, prev_result, start_files>>
sideVars == <<state_lock, stacks, start_calls>>
cliVars == <<exit_code, project>>
\* The environment the commands act on.
Env == [scopes |-> scopes, calls |-> task_calls, stubs |-> task_stubs, files |-> files]

\* The file-system states a script can start from: only the scripts that
\* name files get more than the empty one.
InitialFiles(sk) ==
    {f \in [Paths -> 0..2] : \A p \in Paths \ MentionedPaths(sk) : f[p] = 0}

\* ------------------------------------------------------ project discovery
\* Paths are sequences of components from the file-system root (the empty
\* sequence).  The directories are the prefixes of DirChain; in each of
\* them an entry of either build-script name is absent, a file or a
\* directory (with nothing in it).
DirChain == SubSeq(<<"w", "p", "s", "t">>, 1, MaxDepth)
BUILD_SCRIPT_NAMES == <<"build.quake", "build.quake.nu">>
Kinds == {"absent", "file", "dir"}
DirEntries == [0..MaxDepth -> [Range(BUILD_SCRIPT_NAMES) -> Kinds]]

IsChainDir(path) == Len(path) <= MaxDepth /\ path = SubSeq(DirChain, 1, Len(path))
\* The kind of the entry a path names, for a path one below a directory.
EntryKind(ent, path) ==
    IF path # <<>> /\ IsChainDir(SubSeq(path, 1, Len(path) - 1))
       /\ path[Len(path)] \in Range(BUILD_SCRIPT_NAMES)
    THEN ent[Len(path) - 1][path[Len(path)]]
    ELSE "absent"
\* Path::is_dir, Path::is_file
IsDirectory(ent, path) == IsChainDir(path) \/ EntryKind(ent, path) = "dir"
IsFile(ent, path) == ~IsChainDir(path) /\ EntryKind(ent, path) = "file"
\* Path::parent
Parent(path) == IF path = <<>> THEN None ELSE Some(SubSeq(path, 1, Len(path) - 1))

\* find_build_script taking the last name of the list that is a file.
FindBuildScriptLast(ent, dir) ==
    LET hits == {i \in 1..Len(BUILD_SCRIPT_NAMES) :
                   IsFile(ent, Append(dir, BUILD_SCRIPT_NAMES[i]))}
    IN IF hits = {} THEN None
       ELSE Some(Append(dir, BUILD_SCRIPT_NAMES[CHOOSE i \in hits : \A j \in hits : j <= i]))

\* find_build_script: the first name of the list that is a file in dir.
FindBuildScript(ent, dir) ==
    LET hits == {i \in 1..Len(BUILD_SCRIPT_NAMES) :
                   IsFile(ent, Append(dir, BUILD_SCRIPT_NAMES[i]))}
    IN IF hits = {} THEN None
       ELSE Some(Append(dir, BUILD_SCRIPT_NAMES[CHOOSE i \in hits : \A j \in hits : i <= j]))

\* The project of a process that has got as far as loading its script.
LocatedProject ==
    [entries |-> [k \in 0..MaxDepth |->
                    [n \in Range(BUILD_SCRIPT_NAMES) |->
                       IF k = MaxDepth /\ n = "build.quake" THEN "file" ELSE "absent"]],
     asked |-> DirChain, dir |-> DirChain,
     found |-> Some([project_root |-> DirChain,
                     build_script |-> Append(DirChain, "build.quake")])]

\* The paths locate is asked for: every directory, the entries of the
\* deepest one, and a path that does not exist.
LocateInputs ==
    {SubSeq(DirChain, 1, k) : k \in 0..MaxDepth}
    \cup {Append(DirChain, BUILD_SCRIPT_NAMES[i]) : i \in 1..Len(BUILD_SCRIPT_NAMES)}
    \cup {Append(DirChain, "nothing")}

\* The threads whose use of the lock is followed: the thread that runs the
\* engine and the thread of a worker.
Threads == {"engine", "worker"}
\* Nobody holds the lock.
Unlocked == [writer |-> None, readers |-> {}]
\* No routine is followed and no store is remembered.
SideIdle ==
    /\ state_lock = Unlocked
    /\ stacks = [t \in Threads |-> <<>>]
    /\ start_calls = <<>>

\* The state a process starts in, whatever the script and the files.
Fresh ==
    /\ phase = "parse"
    /\ parse_idx = 1
    /\ errors = <<>>
    /\ task_stubs = <<>>
    /\ task_calls = <<>>
    /\ scopes = {}
    /\ scope_var = -1
    /\ frames = <<>>
    /\ root_call = None
    /\ populated = "none"
    /\ build_tree = None
    /\ task_iter = [order |-> <<>>, next |-> 1]
    /\ handles = {}
    /\ ctrlc = {}
    /\ task_pool = [c \in 0..(MaxCalls - 1) |-> "none"]
    /\ result = "none"
    /\ exit_code = -1
    /\ failed_task = None
    /\ log = <<>>

Init ==
    /\ \E sk \in Skeletons :
         /\ \E fl \in [Names -> BOOLEAN] :
              /\ \A n \in Names \ ScriptNames(sk) : ~fl[n]
              /\ script = WithFlags(sk, fl)
         /\ task_name \in ScriptNames(sk)
         /\ files \in InitialFiles(sk)
    /\ force \in BOOLEAN
    /\ prev_result = "none"
    /\ start_files = files
    /\ SideIdle
    /\ project = LocatedProject
    /\ Fresh

\* ------------------------------------------------------------------- load
\* The parse of one top-level item: the host parser's errors, and
\* parse_metadata visiting the def-task calls in it (parse_def_task).
ParseStep ==
    /\ phase = "parse"
    /\ parse_idx <= Len(script)
    /\ LET r == ParseItem(script[parse_idx], task_stubs, <<parse_idx>>)
       IN /\ task_stubs' = r.stubs
          /\ errors' = errors \o r.errors
    /\ parse_idx' = parse_idx + 1
    /\ UNCHANGED <<inputVars, sideVars, cliVars, files, phase, task_calls, scopeVars, frames, root_call,
                   populated, schedVars, result>>

\* The top level of the script as the block load_script evaluates: a
\* def-task call is a command like any other.
TopLevelBlock(sc) ==
    [i \in 1..Len(sc) |-> IF IsDef(sc[i]) THEN DefTaskCmd(sc[i]) ELSE sc[i]]

\* load_script going on to the evaluation whatever the parse recorded.
FinishLoadIgnoringErrors ==
    /\ phase = "parse"
    /\ parse_idx > Len(script)
    /\ \E o \in EvalOutcomes(TopLevelBlock(script), scope_var, Env) :
          /\ IF o.status = "true"
             THEN phase' = "loaded" /\ result' = result
             ELSE phase' = "exit" /\ result' = "EvalFailed"
          /\ files' = o.env.files
          /\ task_stubs' = o.env.stubs
          /\ task_calls' = o.env.calls
          /\ scopes' = o.env.scopes
    /\ \A p \in Paths : files'[p] <= MaxTime
    /\ UNCHANGED <<inputVars, sideVars, cliVars, parse_idx, errors, scope_var, frames, root_call,
                   populated, schedVars>>

\* parse_source after the walk, then load_script: any recorded error makes
\* load fail with ParseFailed before anything is evaluated; otherwise the
\* top level is evaluated (the def-task calls are no-ops at run time), and
\* load fails with EvalFailed unless that evaluation returns true.
FinishLoad ==
    /\ phase = "parse"
    /\ parse_idx > Len(script)
    /\ IF errors # <<>>
       THEN /\ phase' = "exit" /\ result' = "ParseFailed"
            /\ UNCHANGED <<files, storeVars, scopes>>
       ELSE \E o \in EvalOutcomes(TopLevelBlock(script), scope_var, Env) :
               /\ IF o.status = "true"
                  THEN phase' = "loaded" /\ result' = result
                  ELSE phase' = "exit" /\ result' = "EvalFailed"
               /\ files' = o.env.files
               /\ task_stubs' = o.env.stubs
               /\ task_calls' = o.env.calls
               /\ scopes' = o.env.scopes
    /\ \A p \in Paths : files'[p] <= MaxTime
    /\ UNCHANGED <<inputVars, sideVars, cliVars, parse_idx, errors, scope_var, frames, root_call,
                   populated, schedVars>>


\* -------------------------------------------------------- run, first phase
Frame(c) == [call_id |-> c, st |-> "enter", deps |-> <<>>, idx |-> 1, pc |-> 1]
Top == frames[Len(frames)]
SetTop(f) == [frames EXCEPT ![Len(frames)] = f]
StubOf(c) == task_stubs[task_calls[c + 1].task_id + 1]
CurrentScope == CHOOSE sc \in scopes : sc.id = scope_var

\* run -> populate_metadata_for_call: resolve the task, register the root
\* call and start populating it.
StartRun ==
    /\ phase = "loaded"
    /\ IF FindTaskStubId(task_stubs, task_name) < 0
       THEN /\ phase' = "exit" /\ result' = "EvalFailed"
            /\ UNCHANGED <<task_calls, frames, root_call>>
       ELSE LET r == RegisterTaskCall(task_calls, FindTaskStubId(task_stubs, task_name),
                                      <<>>)
            IN /\ task_calls' = r.calls
               /\ root_call' = Some(r.id)
               /\ frames' = <<Frame(r.id)>>
               /\ phase' = "populate"
               /\ result' = result
    /\ UNCHANGED <<inputVars, sideVars, cliVars, files, parse_idx, errors, task_stubs, scopeVars, populated,
                   schedVars>>

\* eval_task_decl_body with a push_scope that binds a new scope whatever the
\* scope-id variable holds.
EnterDeclBodyNesting ==
    /\ phase = "populate" /\ frames # <<>> /\ Top.st = "enter"
    /\ LET c == Top.call_id IN
       IF ~IsSome(StubOf(c).decl_body)
       THEN /\ task_calls' = InsertTaskCallMetadata(task_calls, c, DefaultMeta)
            /\ frames' = SetTop([Top EXCEPT !.st = "deps", !.deps = <<>>, !.idx = 1])
            /\ UNCHANGED <<scopeVars, phase, result, populated>>
       ELSE /\ scopes' = scopes \cup {[id |-> Cardinality(scopes), call_id |-> c,
                                      meta |-> DefaultMeta]}
            /\ scope_var' = Cardinality(scopes)
            /\ frames' = SetTop([Top EXCEPT !.st = "body", !.pc = 1])
            /\ UNCHANGED <<task_calls, phase, result, populated>>
    /\ UNCHANGED <<inputVars, sideVars, cliVars, files, parse_idx, errors, task_stubs, root_call, schedVars>>

\* eval_task_decl_body up to the evaluation of the block: a task without decl
\* body gets the empty metadata at once; otherwise push_scope, which refuses
\* to nest (scope-id variable non-negative) and else binds a fresh scope.
EnterDeclBody ==
    /\ phase = "populate" /\ frames # <<>> /\ Top.st = "enter"
    /\ LET c == Top.call_id IN
       IF ~IsSome(StubOf(c).decl_body)
       THEN /\ task_calls' = InsertTaskCallMetadata(task_calls, c, DefaultMeta)
            /\ frames' = SetTop([Top EXCEPT !.st = "deps", !.deps = <<>>, !.idx = 1])
            /\ UNCHANGED <<scopeVars, phase, result, populated>>
       ELSE IF scope_var >= 0
            THEN /\ phase' = "exit" /\ result' = "EvalFailed" /\ populated' = "err"
                 /\ UNCHANGED <<task_calls, frames, scopeVars>>
            ELSE /\ scopes' = scopes \cup {[id |-> Cardinality(scopes), call_id |-> c,
                                           meta |-> DefaultMeta]}
                 /\ scope_var' = Cardinality(scopes)
                 /\ frames' = SetTop([Top EXCEPT !.st = "body", !.pc = 1])
                 /\ UNCHANGED <<task_calls, phase, result, populated>>
    /\ UNCHANGED <<inputVars, sideVars, cliVars, files, parse_idx, errors, task_stubs, root_call, schedVars>>

\* One command of the decl body being evaluated, by its run method: on
\* success the evaluation moves on; on an error eval_task_decl_body returns
\* it at once (the scope stays), populate_metadata_for_call reports it and
\* run returns EvalFailed.  An external command that succeeds changes nothing.
DeclCommand ==
    /\ phase = "populate" /\ frames # <<>> /\ Top.st = "body"
    /\ Top.pc <= Len(Unwrap(StubOf(Top.call_id).decl_body))
    /\ LET cmd == Unwrap(StubOf(Top.call_id).decl_body)[Top.pc]
           r == ExecCommand(cmd, scope_var, Env)
       IN /\ cmd.op \in {"depends_task", "subtask"} => Len(task_calls) < MaxCalls
          /\ scopes' = r.env.scopes
          /\ task_calls' = r.env.calls
          /\ task_stubs' = r.env.stubs
          /\ files' = r.env.files
          /\ IF r.ok
             THEN /\ frames' = SetTop([Top EXCEPT !.pc = @ + 1])
                  /\ UNCHANGED <<phase, result, populated>>
             ELSE /\ phase' = "exit" /\ result' = "EvalFailed" /\ populated' = "err"
                  /\ UNCHANGED frames
    /\ \A p \in Paths : files'[p] <= MaxTime
    /\ UNCHANGED <<inputVars, sideVars, cliVars, parse_idx, errors, scope_var, root_call, schedVars>>

\* The external command being evaluated in the decl body raises an error:
\* eval_task_decl_body returns it at once (the scope stays),
\* populate_metadata_for_call reports it and run returns EvalFailed.
DeclRaise ==
    /\ phase = "populate" /\ frames # <<>> /\ Top.st = "body"
    /\ Top.pc <= Len(Unwrap(StubOf(Top.call_id).decl_body))
    /\ Unwrap(StubOf(Top.call_id).decl_body)[Top.pc].op = "external"
    /\ phase' = "exit"
    /\ result' = "EvalFailed"
    /\ populated' = "err"
    /\ UNCHANGED <<inputVars, sideVars, cliVars, files, parse_idx, errors, storeVars, scopeVars, frames,
                   root_call, schedVars>>

\* The decl body has been evaluated to its end: pop_scope, then the scope's
\* metadata is inserted for the call.  With success the dependencies are
\* copied out for the recursion; with Ok(false) (a non-zero exit code left
\* by the last command) every active populate_metadata_for_call_id returns
\* false and populate_metadata_for_call still returns the root call id.
DeclExit ==
    /\ phase = "populate" /\ frames # <<>> /\ Top.st = "body"
    /\ Top.pc > Len(Unwrap(StubOf(Top.call_id).decl_body))
    /\ task_calls' = InsertTaskCallMetadata(task_calls, Top.call_id, CurrentScope.meta)
    /\ scopes' = scopes \ {CurrentScope}
    /\ scope_var' = -1
    /\ \E success \in BOOLEAN :
         /\ ~EndsWithExternal(Unwrap(StubOf(Top.call_id).decl_body)) => success
         /\ IF success
            THEN /\ frames' = SetTop([Top EXCEPT !.st = "deps",
                                                 !.deps = CurrentScope.meta.dependencies,
                                                 !.idx = 1])
                 /\ phase' = phase
                 /\ populated' = populated
            ELSE /\ frames' = <<>>
                 /\ phase' = "tree"
                 /\ populated' = "false"
    /\ UNCHANGED <<inputVars, sideVars, cliVars, files, parse_idx, errors, task_stubs, root_call, schedVars,
                   result>>

\* The loop over the copied dependencies: recurse into the next one.
DescendDep ==
    /\ phase = "populate" /\ frames # <<>> /\ Top.st = "deps"
    /\ Top.idx <= Len(Top.deps)
    /\ frames' = Append(SetTop([Top EXCEPT !.idx = @ + 1]), Frame(Top.deps[Top.idx]))
    /\ UNCHANGED <<inputVars, sideVars, cliVars, files, phase, parse_idx, errors, storeVars, scopeVars,
                   root_call, populated, schedVars, result>>

\* All dependencies populated: populate_metadata_for_call_id returns true.
ReturnPopulate ==
    /\ phase = "populate" /\ frames # <<>> /\ Top.st = "deps"
    /\ Top.idx > Len(Top.deps)
    /\ frames' = SubSeq(frames, 1, Len(frames) - 1)
    /\ phase' = IF Len(frames) = 1 THEN "tree" ELSE phase
    /\ populated' = IF Len(frames) = 1 THEN "true" ELSE populated
    /\ UNCHANGED <<inputVars, sideVars, cliVars, files, parse_idx, errors, storeVars, scopeVars, root_call,
                   schedVars, result>>

\* ------------------------------------------------------- run, second phase
SchedState == [next |-> task_iter.next, handles |-> handles, ctrlc |-> ctrlc]

\* The scheduler state st installed, a worker being spawned for each new key.
Install(st) ==
    /\ task_iter' = [task_iter EXCEPT !.next = st.next]
    /\ handles' = st.handles
    /\ ctrlc' = st.ctrlc
    /\ task_pool' = [c \in DOMAIN task_pool |->
                       IF c \in st.handles \ handles THEN "spawned" ELSE task_pool[c]]

\* generate_run_tree and flatten.
BuildTree ==
    /\ phase = "tree"
    /\ build_tree' = Some(GenerateRunTree(Unwrap(root_call), task_calls))
    /\ task_iter' = [order |-> Flatten(Unwrap(build_tree')), next |-> 1]
    /\ phase' = "spawn"
    /\ UNCHANGED <<inputVars, sideVars, cliVars, files, parse_idx, errors, storeVars, scopeVars, frames,
                   root_call, populated, handles, ctrlc, task_pool, failed_task, log,
                   result>>

\* The first spawn_tasks!() of the main loop.
InitialSpawn ==
    /\ phase = "spawn"
    /\ Install(SpawnTasks(task_iter.order, SchedState, task_calls, task_stubs))
    /\ phase' = "join"
    /\ UNCHANGED <<inputVars, sideVars, cliVars, files, parse_idx, errors, storeVars, scopeVars, frames,
                   root_call, populated, build_tree, failed_task, log, result>>

\* The worker routine going to the run body whatever is_dirty says.
WorkerStartAlwaysRuns(c) ==
    /\ phase = "join" /\ task_pool[c] = "spawned"
    /\ log' = Append(log, <<"running", c>>)
    /\ task_pool' = [task_pool EXCEPT ![c] = "running"]
    /\ UNCHANGED <<inputVars, sideVars, cliVars, files, phase, parse_idx, errors, storeVars, scopeVars,
                   frames, root_call, populated, build_tree, task_iter, handles, ctrlc,
                   failed_task, result>>

\* The worker routine up to the run body: a call that is not dirty is
\* skipped and reports success.  The force option is not consulted.
WorkerStart(c) ==
    /\ phase = "join" /\ task_pool[c] = "spawned"
    /\ IF ~IsDirty(CallMeta(task_calls, c), files)
       THEN /\ log' = Append(log, <<"skipping", c>>)
            /\ task_pool' = [task_pool EXCEPT ![c] = "skipped"]
       ELSE /\ log' = Append(log, <<"running", c>>)
            /\ task_pool' = [task_pool EXCEPT ![c] = "running"]
    /\ UNCHANGED <<inputVars, sideVars, cliVars, files, phase, parse_idx, errors, storeVars, scopeVars,
                   frames, root_call, populated, build_tree, task_iter, handles, ctrlc,
                   failed_task, result>>

\* eval_task_run_body and the classification of its result: a task without
\* run body succeeds; otherwise the block is evaluated on the worker's own
\* stack, on which no scope is bound, and the worker reports success when
\* the evaluation returns true, failure when it returns false or an error.
WorkerFinish(c) ==
    /\ phase = "join" /\ task_pool[c] = "running"
    /\ IF ~IsSome(StubOf(c).run_body)
       THEN /\ task_pool' = [task_pool EXCEPT ![c] = "ok"]
            /\ UNCHANGED <<files, storeVars, scopes>>
       ELSE \E o \in EvalOutcomes(Unwrap(StubOf(c).run_body), -1, Env) :
               /\ task_pool' = [task_pool EXCEPT ![c] =
                                   IF o.status = "true" THEN "ok" ELSE "fail"]
               /\ files' = o.env.files
               /\ task_stubs' = o.env.stubs
               /\ task_calls' = o.env.calls
               /\ scopes' = o.env.scopes
    /\ \A p \in Paths : files'[p] <= MaxTime
    /\ UNCHANGED <<inputVars, sideVars, cliVars, phase, parse_idx, errors, scope_var, frames, root_call,
                   populated, build_tree, task_iter, handles, ctrlc, failed_task, log,
                   result>>

\* The join loop leaving the handle of the joined worker in the map.
JoinKeepsHandle(c) ==
    /\ phase = "join" /\ task_pool[c] \in {"ok", "skipped", "fail"}
    /\ IF task_pool[c] = "fail"
       THEN /\ LET st == AbortAll(SchedState)
               IN /\ handles' = st.handles
                  /\ ctrlc' = st.ctrlc
            /\ task_pool' = [task_pool EXCEPT ![c] = "failed"]
            /\ failed_task' = Some(TaskName(task_calls, task_stubs, c))
            /\ result' = "TaskFailed"
            /\ phase' = "exit"
            /\ UNCHANGED task_iter
       ELSE /\ LET st == SpawnTasks(task_iter.order, SchedState, task_calls, task_stubs)
               IN /\ task_iter' = [task_iter EXCEPT !.next = st.next]
                  /\ handles' = st.handles
                  /\ ctrlc' = st.ctrlc
                  /\ task_pool' = [d \in DOMAIN task_pool |->
                                     IF d = c THEN "joined"
                                     ELSE IF d \in st.handles \ handles THEN "spawned"
                                     ELSE task_pool[d]]
            /\ UNCHANGED <<failed_task, result, phase>>
    /\ UNCHANGED <<inputVars, sideVars, cliVars, files, parse_idx, errors, storeVars, scopeVars, frames,
                   root_call, populated, build_tree, log>>

\* One iteration of the join loop on the finished worker c: its handle is
\* removed; on failure abort_all and return TaskFailed naming its task, else
\* spawn_tasks!() again.
Join(c) ==
    /\ phase = "join" /\ task_pool[c] \in {"ok", "skipped", "fail"}
    /\ IF task_pool[c] = "fail"
       THEN /\ LET st == AbortAll([SchedState EXCEPT !.handles = @ \ {c}])
               IN /\ handles' = st.handles
                  /\ ctrlc' = st.ctrlc
            /\ task_pool' = [task_pool EXCEPT ![c] = "failed"]
            /\ failed_task' = Some(TaskName(task_calls, task_stubs, c))
            /\ result' = "TaskFailed"
            /\ phase' = "exit"
            /\ UNCHANGED task_iter
       ELSE /\ LET st == SpawnTasks(task_iter.order,
                                    [SchedState EXCEPT !.handles = @ \ {c}],
                                    task_calls, task_stubs)
               IN /\ task_iter' = [task_iter EXCEPT !.next = st.next]
                  /\ handles' = st.handles
                  /\ ctrlc' = st.ctrlc
                  /\ task_pool' = [d \in DOMAIN task_pool |->
                                     IF d = c THEN "joined"
                                     ELSE IF d \in st.handles \ handles THEN "spawned"
                                     ELSE task_pool[d]]
            /\ UNCHANGED <<failed_task, result, phase>>
    /\ UNCHANGED <<inputVars, sideVars, cliVars, files, parse_idx, errors, storeVars, scopeVars, frames,
                   root_call, populated, build_tree, log>>

\* join_next finds the pool empty: the loop ends and run returns Ok.
FinishRun ==
    /\ phase = "join"
    /\ \A c \in DOMAIN task_pool : task_pool[c] \in {"none", "joined"}
    /\ phase' = "exit"
    /\ result' = "Ok"
    /\ UNCHANGED <<inputVars, sideVars, cliVars, files, parse_idx, errors, storeVars, scopeVars, frames,
                   root_call, populated, schedVars>>

Next ==
    \/ ParseStep
    \/ FinishLoad
    \/ StartRun
    \/ EnterDeclBody
    \/ DeclCommand
    \/ DeclRaise
    \/ DeclExit
    \/ DescendDep
    \/ ReturnPopulate
    \/ BuildTree
    \/ InitialSpawn
    \/ \E c \in DOMAIN task_pool : WorkerStart(c)
    \/ \E c \in DOMAIN task_pool : WorkerFinish(c)
    \/ \E c \in DOMAIN task_pool : Join(c)
    \/ FinishRun

Spec == Init /\ [][Next]_vars

\* The main loop with workers that finish: the first spawn_tasks!(), every
\* worker and the join loop take the steps they can take.
SchedNext ==
    \/ InitialSpawn
    \/ \E c \in DOMAIN task_pool : WorkerStart(c) \/ WorkerFinish(c) \/ Join(c)
    \/ FinishRun

FairSpec == Init /\ [][Next]_vars /\ WF_vars(SchedNext)

\* ---------------------------------------------------- process termination
\* EngineError::exit_code, and 0 for Ok (ExitCode::SUCCESS).
ExitCode(res) ==
    CASE res = "Ok" -> 0
      [] res \in {"LoadFailed", "ParseFailed", "EvalFailed", "Other"} -> 127
      [] res = "TaskFailed" -> 1
      [] res = "Internal" -> 255

\* load_script cannot read the build script: the I/O error, with its
\* context, converts into EngineError::Other.
ReadFailure ==
    /\ phase = "parse"
    /\ parse_idx = 1
    /\ phase' = "exit"
    /\ result' = "Other"
    /\ UNCHANGED <<inputVars, sideVars, cliVars, files, parse_idx, errors, storeVars, scopeVars,
                   frames, root_call, populated, schedVars>>

\* run cannot create the runtime: EngineError::Internal.
RuntimeFailure ==
    /\ phase = "spawn"
    /\ phase' = "exit"
    /\ result' = "Internal"
    /\ UNCHANGED <<inputVars, sideVars, cliVars, files, parse_idx, errors, storeVars, scopeVars,
                   frames, root_call, populated, schedVars>>

\* CliResult::report: the process terminates with the exit code of the
\* engine's result.
Report ==
    /\ phase = "exit"
    /\ exit_code = -1
    /\ exit_code' = ExitCode(result)
    /\ UNCHANGED <<inputVars, sideVars, project, files, phase, parse_idx, errors, storeVars, scopeVars,
                   frames, root_call, populated, schedVars, result>>

\* An interrupt (Ctrl-C) reaches the process while the main loop waits for
\* its workers.  Neither main nor run installs a handler for it and nothing
\* connects it to abort_all, so the signal ends the process where it
\* stands.
Interrupt ==
    /\ phase = "join"
    /\ handles # {}
    /\ phase' = "killed"
    /\ UNCHANGED <<inputVars, sideVars, cliVars, files, parse_idx, errors, storeVars, scopeVars,
                   frames, root_call, populated, schedVars, result>>

CliNext == Next \/ ReadFailure \/ RuntimeFailure \/ Interrupt \/ Report

\* The process with the failures of its environment and its termination.
CliSpec == Init /\ [][CliNext]_vars

\* ------------------------------------------------ Project::locate on its own
LocateInit ==
    /\ script = <<>>
    /\ task_name = "A"
    /\ force = FALSE
    /\ prev_result = "none"
    /\ files = [p \in Paths |-> 0]
    /\ start_files = files
    /\ SideIdle
    /\ \E ent \in DirEntries, d \in LocateInputs :
          project = [entries |-> ent, asked |-> d, dir |-> d, found |-> None]
    /\ phase = "locate"
    /\ parse_idx = 1
    /\ errors = <<>>
    /\ task_stubs = <<>>
    /\ task_calls = <<>>
    /\ scopes = {}
    /\ scope_var = -1
    /\ frames = <<>>
    /\ root_call = None
    /\ populated = "none"
    /\ build_tree = None
    /\ task_iter = [order |-> <<>>, next |-> 1]
    /\ handles = {}
    /\ ctrlc = {}
    /\ task_pool = [c \in 0..(MaxCalls - 1) |-> "none"]
    /\ result = "none"
    /\ exit_code = -1
    /\ failed_task = None
    /\ log = <<>>

\* One activation of Project::locate on the directory it is at.
Locate ==
    /\ phase = "locate"
    /\ result = "none"
    /\ IF ~IsDirectory(project.entries, project.dir)
       THEN /\ result' = "ProjectNotFound"
            /\ UNCHANGED project
       ELSE IF IsSome(FindBuildScript(project.entries, project.dir))
            THEN /\ result' = "Ok"
                 /\ project' = [project EXCEPT !.found =
                       Some([project_root |-> project.dir,
                             build_script |->
                                Unwrap(FindBuildScript(project.entries, project.dir))])]
            ELSE IF IsSome(Parent(project.dir))
                 THEN /\ project' = [project EXCEPT !.dir = Unwrap(Parent(project.dir))]
                      /\ UNCHANGED result
                 ELSE /\ result' = "ProjectNotFound"
                      /\ UNCHANGED project
    /\ UNCHANGED <<inputVars, sideVars, exit_code, files, phase, parse_idx, errors, storeVars,
                   scopeVars, frames, root_call, populated, schedVars>>

LocateNext == Locate

LocateSpec == LocateInit /\ [][LocateNext]_vars

\* ------------------------------------------------- is_dirty on its own
\* Metadata with any sources and artifacts of up to MaxPaths paths, any
\* file times: the one call of the store holds the metadata, result the
\* answer of is_dirty.
PathLists == UNION {[1..k -> Paths] : k \in 0..MaxPaths}

DirtyInit ==
    /\ script = <<>>
    /\ task_name = "A"
    /\ force = FALSE
    /\ prev_result = "none"
    /\ files \in [Paths -> 0..2]
    /\ start_files = files
    /\ SideIdle
    /\ project = LocatedProject
    /\ phase = "is_dirty"
    /\ parse_idx = 1
    /\ errors = <<>>
    /\ task_stubs = <<>>
    /\ \E src \in PathLists, art \in PathLists :
          task_calls = <<[task_id |-> 0, arguments |-> <<>>,
                          metadata |-> Some([dependencies |-> <<>>, sources |-> src,
                                             artifacts |-> art])]>>
    /\ scopes = {}
    /\ scope_var = -1
    /\ frames = <<>>
    /\ root_call = None
    /\ populated = "none"
    /\ build_tree = None
    /\ task_iter = [order |-> <<>>, next |-> 1]
    /\ handles = {}
    /\ ctrlc = {}
    /\ task_pool = [c \in 0..(MaxCalls - 1) |-> "none"]
    /\ result = "none"
    /\ exit_code = -1
    /\ failed_task = None
    /\ log = <<>>

\* is_dirty applied to the metadata.
DirtyCheck ==
    /\ phase = "is_dirty"
    /\ result = "none"
    /\ result' = IF IsDirty(CallMeta(task_calls, 0), files) THEN "dirty" ELSE "clean"
    /\ UNCHANGED <<inputVars, sideVars, cliVars, files, phase, parse_idx, errors, storeVars, scopeVars,
                   frames, root_call, populated, schedVars>>

DirtyNext == DirtyCheck

DirtySpec == DirtyInit /\ [][DirtyNext]_vars

\* ----------------------------------------- generate_run_tree on its own
\* Any store of TreeCalls calls: each call without metadata or with a
\* dependency list of up to MaxDeps entries over the calls of the store
\* (shared calls, repeated entries, self references and cycles included),
\* any call as the root.
TreeCallIds == {0, 1, 2}
DepLists == UNION {[1..k -> TreeCallIds] : k \in 0..MaxDeps}
TreeMetas == {None} \cup {Some([dependencies |-> d, sources |-> <<>>, artifacts |-> <<>>]) :
                             d \in DepLists}

TreeInit ==
    /\ script = <<>>
    /\ task_name = "A"
    /\ force = FALSE
    /\ prev_result = "none"
    /\ files = [p \in Paths |-> 0]
    /\ start_files = files
    /\ SideIdle
    /\ project = LocatedProject
    /\ phase = "tree_only"
    /\ parse_idx = 1
    /\ errors = <<>>
    /\ task_stubs = <<>>
    /\ \E m \in [TreeCallIds -> TreeMetas] :
          task_calls = [i \in 1..Cardinality(TreeCallIds) |->
                           [task_id |-> 0, arguments |-> <<>>, metadata |-> m[i - 1]]]
    /\ scopes = {}
    /\ scope_var = -1
    /\ frames = <<>>
    /\ root_call \in {Some(c) : c \in TreeCallIds}
    /\ populated = "none"
    /\ build_tree = None
    /\ task_iter = [order |-> <<>>, next |-> 1]
    /\ handles = {}
    /\ ctrlc = {}
    /\ task_pool = [c \in 0..(MaxCalls - 1) |-> "none"]
    /\ result = "none"
    /\ exit_code = -1
    /\ failed_task = None
    /\ log = <<>>

\* generate_run_tree applied to the root call and the store.
GenerateTree ==
    /\ phase = "tree_only"
    /\ build_tree = None
    /\ build_tree' = Some(GenerateRunTree(Unwrap(root_call), task_calls))
    /\ UNCHANGED <<inputVars, sideVars, cliVars, files, phase, parse_idx, errors, storeVars, scopeVars,
                   frames, root_call, populated, task_iter, handles, ctrlc, task_pool,
                   result, failed_task, log>>

TreeNext == GenerateTree

TreeSpec == TreeInit /\ [][TreeNext]_vars

\* The same command line entered once more after the process has ended: a
\* new process on the files the first one left.
Rerun ==
    /\ phase = "exit"
    /\ exit_code = -1
    /\ prev_result = "none"
    /\ prev_result' = result
    /\ start_files' = files
    /\ phase' = "parse"
    /\ parse_idx' = 1
    /\ errors' = <<>>
    /\ task_stubs' = <<>>
    /\ task_calls' = <<>>
    /\ scopes' = {}
    /\ scope_var' = -1
    /\ frames' = <<>>
    /\ root_call' = None
    /\ populated' = "none"
    /\ build_tree' = None
    /\ task_iter' = [order |-> <<>>, next |-> 1]
    /\ handles' = {}
    /\ ctrlc' = {}
    /\ task_pool' = [c \in 0..(MaxCalls - 1) |-> "none"]
    /\ result' = "none"
    /\ exit_code' = -1
    /\ failed_task' = None
    /\ log' = <<>>
    /\ UNCHANGED <<sideVars, script, task_name, force, files, project>>

NextTwice == Next \/ Rerun

\* One process, possibly followed by a second one.
SpecTwice == Init /\ [][NextTwice]_vars

\* ------------------------------------- abort_tree and abort_all on their own
\* Any run tree over the calls of TreeCallIds, any handles map over them and
\* any set of cancellation flags already set among its workers.
AbortTrees == {GenerateRunTree(r, [i \in 1..Cardinality(TreeCallIds) |->
                                     [task_id |-> 0, arguments |-> <<>>,
                                      metadata |-> m[i - 1]]]) :
                  r \in TreeCallIds, m \in [TreeCallIds -> TreeMetas]}

AbortInit ==
    /\ script = <<>>
    /\ task_name = "A"
    /\ force = FALSE
    /\ prev_result = "none"
    /\ files = [p \in Paths |-> 0]
    /\ start_files = files
    /\ SideIdle
    /\ project = LocatedProject
    /\ phase = "abort_only"
    /\ parse_idx = 1
    /\ errors = <<>>
    /\ task_stubs = <<>>
    /\ task_calls = <<>>
    /\ scopes = {}
    /\ scope_var = -1
    /\ frames = <<>>
    /\ root_call = None
    /\ populated = "none"
    /\ build_tree \in {Some(t) : t \in AbortTrees}
    /\ task_iter = [order |-> <<>>, next |-> 1]
    /\ handles \in SUBSET TreeCallIds
    /\ ctrlc \in SUBSET handles
    /\ task_pool = [c \in 0..(MaxCalls - 1) |-> "none"]
    /\ result = "none"
    /\ exit_code = -1
    /\ failed_task = None
    /\ log = <<>>

\* abort_tree on a node of the tree.
AbortTreeAt ==
    /\ phase = "abort_only"
    /\ log = <<>>
    /\ \E n \in NodesIn(Unwrap(build_tree)) :
          LET st == AbortTree(n, SchedState)
          IN /\ handles' = st.handles
             /\ ctrlc' = st.ctrlc
             /\ log' = <<<<"abort_tree", n.call_id>>>>
    /\ UNCHANGED <<inputVars, sideVars, cliVars, files, phase, parse_idx, errors, storeVars, scopeVars,
                   frames, root_call, populated, build_tree, task_iter, task_pool, failed_task,
                   result>>

\* abort_all
AbortAllNow ==
    /\ phase = "abort_only"
    /\ log = <<>>
    /\ LET st == AbortAll(SchedState)
       IN /\ handles' = st.handles
          /\ ctrlc' = st.ctrlc
    /\ log' = <<<<"abort_all", -1>>>>
    /\ UNCHANGED <<inputVars, sideVars, cliVars, files, phase, parse_idx, errors, storeVars, scopeVars,
                   frames, root_call, populated, build_tree, task_iter, task_pool, failed_task,
                   result>>

\* A run, or the two operations applied to any scheduler state.
AbortNext == Next \/ AbortTreeAt \/ AbortAllNow

AbortSpec == (Init \/ AbortInit) /\ [][AbortNext]_vars

\* ------------------------------------------------ run on the same engine
\* Engine::run called once more on the engine after a run that returned
\* with no worker left in the pool (Ok, or EvalFailed while populating):
\* the store, the scope table and the stack with the scope-id variable are
\* those the first call left.
RunAgain ==
    /\ phase = "exit"
    /\ exit_code = -1
    /\ prev_result = "none"
    /\ IsSome(root_call)
    /\ result \in {"Ok", "EvalFailed"}
    /\ Len(task_calls) < MaxCalls
    /\ prev_result' = result
    /\ phase' = "loaded"
    /\ result' = "none"
    /\ populated' = "none"
    /\ frames' = <<>>
    /\ root_call' = None
    /\ build_tree' = None
    /\ task_iter' = [order |-> <<>>, next |-> 1]
    /\ UNCHANGED <<sideVars, script, task_name, force, start_files, cliVars, files, parse_idx, errors,
                   storeVars, scopeVars, handles, ctrlc, task_pool, failed_task, log>>

ReuseNext == Next \/ RunAgain

ReuseSpec == Init /\ [][ReuseNext]_vars

\* =================================================================== claims
\* The script with every --concurrent switch cleared.
Plain(sc) == [i \in 1..Len(sc) |->
                IF IsDef(sc[i]) THEN [sc[i] EXCEPT !.concurrent = FALSE] ELSE sc[i]]

IsRunning(e) == e[1] = "running"
\* The task names of the "running" events, in the order they were emitted.
RunningNames ==
    LET r == SelectSeq(log, IsRunning)
    IN [i \in 1..Len(r) |-> TaskName(task_calls, task_stubs, r[i][2])]

IsPrefix(a, b) == Len(a) <= Len(b) /\ SubSeq(b, 1, Len(a)) = a

Spawned(c) == task_pool[c] # "none"
NonConcurrent(c) == ~IsConcurrent(task_calls, task_stubs, c)

\* C1: a node's worker is spawned only after the workers of all its children
\* have been joined with success, so a node and one of its children are never
\* in flight together; for the chain C -> B -> A run with root C the run
\* bodies execute in the order A, B, C.
C1_ChildrenJoinedBeforeParent ==
    /\ \A i \in 1..Len(task_iter.order) :
         Spawned(task_iter.order[i].call_id) =>
            \A ch \in ChildIds(task_iter.order[i]) :
               task_pool[ch] = "joined" /\ ch \notin handles
    /\ (Plain(script) = Chain /\ task_name = "C") =>
         /\ IsPrefix(RunningNames, <<"A", "B", "C">>)
         /\ result = "Ok" => RunningNames = <<"A", "B", "C">>

\* C1 witness: the chain has run to its end through A, B, C, with the
\* dependencies marked concurrent.
C1_Witness ==
    /\ Plain(script) = Chain /\ task_name = "C"
    /\ script[1].concurrent /\ script[2].concurrent
    /\ result = "Ok"
    /\ RunningNames = <<"A", "B", "C">>

\* C2: the in-flight workers are either a single worker of a non-concurrent
\* task or workers of concurrent tasks only.
C2_NonConcurrentRunsAlone ==
    \A c \in handles : NonConcurrent(c) => handles = {c}

\* C3: once the worker of a non-concurrent task is spawned no other worker is
\* spawned until it has been joined; with dependencies [A concurrent, B not
\* concurrent, C concurrent] the run body of B overlaps neither A's nor C's.
C3_BarrierStep ==
    (\E c \in handles : NonConcurrent(c) /\ c \in handles') => handles' \subseteq handles

C3_NoOverlapWithB ==
    (/\ Plain(script) = Fan /\ task_name = "D"
     /\ script[1].concurrent /\ ~script[2].concurrent /\ script[3].concurrent)
    => \A b, o \in DOMAIN task_pool :
          (/\ b # o
           /\ task_pool[b] = "running"
           /\ TaskName(task_calls, task_stubs, b) = "B")
          => task_pool[o] # "running"

C3_Barrier == [][C3_BarrierStep]_vars /\ []C3_NoOverlapWithB

\* C4: when a joined worker reports failure, every worker still in the
\* handles map has its cancellation flag set, the map is emptied, nothing
\* more is spawned and run returns TaskFailed naming the failed worker's task.
C4_FailureStep ==
    \A c \in DOMAIN task_pool :
       (task_pool[c] = "fail" /\ task_pool'[c] # "fail") =>
          /\ result' = "TaskFailed"
          /\ failed_task' = Some(TaskName(task_calls, task_stubs, c))
          /\ handles' = {}
          /\ ctrlc' = ctrlc \cup (handles \ {c})
          /\ task_iter' = task_iter
          /\ \A d \in DOMAIN task_pool : task_pool[d] = "none" => task_pool'[d] = "none"
          /\ phase' = "exit"

C4_FailureAbortsAll ==
    /\ [][C4_FailureStep]_vars
    /\ [](result = "TaskFailed" => (phase = "exit" /\ handles = {}))
    /\ [][phase = "exit" => UNCHANGED vars]_vars

\* C4 witness: a run has failed while other workers were in flight and
\* nodes of the sequence were still unspawned.
C4_Witness ==
    /\ result = "TaskFailed"
    /\ ctrlc # {}
    /\ task_iter.next <= Len(task_iter.order)


RECURSIVE NodesOf(_)
NodesOf(n) == {n} \cup UNION {NodesOf(n.children[i]) : i \in 1..Len(n.children)}
Pos(seq, n) == CHOOSE i \in 1..Len(seq) : seq[i] = n

\* seq lists the nodes of tree in post-order.
PostOrder(tree, seq) ==
    /\ Len(seq) = Cardinality(NodesOf(tree))
    /\ \A n \in NodesOf(tree) : Cardinality({i \in 1..Len(seq) : seq[i] = n}) = 1
    /\ seq[Len(seq)] = tree
    /\ \A n \in NodesOf(tree) : \A k \in 1..Len(n.children) :
          /\ \A d \in NodesOf(n.children[k]) : Pos(seq, d) < Pos(seq, n)
          /\ \A l \in (k + 1)..Len(n.children) :
                \A d \in NodesOf(n.children[k]), e \in NodesOf(n.children[l]) :
                   Pos(seq, d) < Pos(seq, e)

\* C5: flatten returns the nodes of the tree in post-order: every node once,
\* every node after all nodes of its subtrees, siblings (and their subtrees)
\* in the order of the children list, the root last.
C5_FlattenPostOrder ==
    IsSome(build_tree) => PostOrder(Unwrap(build_tree), task_iter.order)

\* C5 witness: a flattened tree whose root has two children with a child each.
C5_Witness ==
    /\ IsSome(build_tree)
    /\ Len(Unwrap(build_tree).children) = 2
    /\ \A k \in 1..2 : Len(Unwrap(build_tree).children[k].children) = 1
    /\ Len(task_iter.order) = 5

\* C6: in the diamond, Run(D) evaluates the run body of A exactly once, then
\* B and C in declaration order, then D.
C6_DiamondRunsAOnce ==
    (script = Diamond /\ task_name = "D" /\ result = "Ok")
    => RunningNames = <<"A", "B", "C", "D">>

IsCycle == Plain(script) \in {Cycle, CycleRev}

\* C7 as stated: with A depending on B and B on A, Run(A) terminates having
\* evaluated the run bodies in the order B, A.
C7_CycleRunsBThenA ==
    (IsCycle /\ task_name = "A" /\ phase = "exit")
    => (result = "Ok" /\ RunningNames = <<"B", "A">>)

\* C7 amended: a script in which A depends on B and B depends on A is never
\* loaded: the depends of the task defined first names a task that is not
\* registered yet, load ends with ParseFailed on that TaskNotFound error, no
\* call is registered and no run body is evaluated.
C7_CycleRejectedAtParse ==
    IsCycle =>
       /\ phase \in {"parse", "exit"}
       /\ task_calls = <<>>
       /\ log = <<>>
       /\ phase = "exit" =>
            /\ result = "ParseFailed"
            /\ \E i \in 1..Len(errors) :
                  errors[i] = TaskNotFound(script[2].name)

\* C7 witness: the load of a cyclic script has ended.
C7_Witness == IsCycle /\ task_name = "A" /\ phase = "exit" /\ result = "ParseFailed"

DepsOf(c) == Range(CallMeta(task_calls, c).dependencies)
RECURSIVE ReachFrom(_)
ReachFrom(S) ==
    LET T == S \cup UNION {DepsOf(c) : c \in S}
    IN IF T = S THEN S ELSE ReachFrom(T)

\* C8: when the first phase has completed and the scheduler starts, every
\* call reachable from the root call through dependency lists has populated
\* metadata.
C8_ClosurePopulated ==
    phase \in {"spawn", "join"} =>
       \A c \in ReachFrom({Unwrap(root_call)}) : IsSome(task_calls[c + 1].metadata)

\* C9: the metadata of a call is written once: once present it is never
\* overwritten nor cleared, so every later read (tree construction,
\* dirtiness check, worker) observes the value written.
C9_Step ==
    \A i \in 1..Len(task_calls) :
       IsSome(task_calls[i].metadata) =>
          /\ i <= Len(task_calls')
          /\ task_calls'[i].metadata = task_calls[i].metadata

RECURSIVE SumDeps(_)
\* The number of dependency entries in the metadata of a sequence of calls.
SumDeps(calls) ==
    IF calls = <<>> THEN 0
    ELSE Len(CallMeta(<<Head(calls)>>, 0).dependencies) + SumDeps(Tail(calls))

RECURSIVE SumScopeDeps(_)
SumScopeDeps(S) ==
    IF S = {} THEN 0
    ELSE LET sc == CHOOSE x \in S : TRUE
         IN Len(sc.meta.dependencies) + SumScopeDeps(S \ {sc})

\* The call ids register_task_call has returned, as far as the state keeps
\* them: the root call and the entries of all dependency lists.
ReturnedIds ==
    Range(root_call)
    \cup UNION {DepsOf(c) : c \in 0..(Len(task_calls) - 1)}
    \cup UNION {Range(sc.meta.dependencies) : sc \in scopes}

C10_Inv ==
    /\ \A i \in 1..Len(task_stubs) :
          /\ task_stubs[i].depends_decl \in {i - 1, -1}
          /\ \A j \in 1..Len(task_stubs) : task_stubs[j].name = task_stubs[i].name => j = i
    /\ IsSome(root_call) => Unwrap(root_call) = 0
    /\ ReturnedIds = 0..(Len(task_calls) - 1)
    /\ Len(root_call) + SumDeps(task_calls) + SumScopeDeps(scopes) = Len(task_calls)

C10_Step ==
    /\ Len(task_calls') \in {Len(task_calls), Len(task_calls) + 1}
    /\ Len(task_stubs') >= Len(task_stubs)
    /\ \A i \in 1..Len(task_calls) :
          /\ task_calls'[i].task_id = task_calls[i].task_id
          /\ task_calls'[i].arguments = task_calls[i].arguments
    /\ \A i \in 1..Len(task_stubs) : task_stubs'[i] = task_stubs[i]

\* C10: the k-th registered task (call) receives id k-1, an id denotes the
\* same task (call) in every later state, no id is reused or removed, and
\* register_task_call returns a new id for every registration, also of a
\* call whose task and arguments are already registered.
C10_DenseStableIds == []C10_Inv /\ [][C10_Step]_vars

\* C10 witness: two registered calls with the same task and arguments.
C10_Witness ==
    \E i, j \in 1..Len(task_calls) :
       /\ i < j
       /\ task_calls[i].task_id = task_calls[j].task_id
       /\ task_calls[i].arguments = task_calls[j].arguments

\* The commands that belong in a decl body, as they stand at run time (a
\* depends is the plain command, or the hidden one after the parse-time
\* rewrite).
DeclOnlyOps == {"depends", "depends_task", "sources", "produces", "subtask"}
HasDeclOnly(block) == \E k \in 1..Len(block) : block[k].op \in DeclOnlyOps

C11_Commands ==
    {Dep("A"), [op |-> "depends_task", task_id |-> 0, args |-> <<>>],
     Src(<<"s.txt">>), Prod(<<"a.out">>), Sub("D", <<3, 1, 1>>)}

C11_Refused ==
    \A cmd \in C11_Commands :
       /\ ~ExecCommand(cmd, -1, Env).ok
       /\ ExecCommand(cmd, -1, Env).error = Some(UnknownScope)
       /\ ExecCommand(cmd, -1, Env).env = Env

C11_Step ==
    /\ \A c \in DOMAIN task_pool :
          (/\ task_pool[c] = "running" /\ task_pool'[c] # "running"
           /\ IsSome(StubOf(c).run_body)
           /\ HasDeclOnly(Unwrap(StubOf(c).run_body)))
          => /\ task_pool'[c] = "fail"
             /\ UNCHANGED <<task_stubs, task_calls, scopes>>
    /\ (/\ phase = "parse" /\ phase' # "parse" /\ errors = <<>>
        /\ \E i \in 1..Len(script) : ~IsDef(script[i]) /\ script[i].op \in DeclOnlyOps)
       => /\ result' = "EvalFailed"
          /\ UNCHANGED <<task_stubs, task_calls, scopes>>

\* C11: depends, sources, produces and subtask, executed while the scope-id
\* variable is -1 (top-level script code, a run body), fail with the
\* invalid-scope error and change neither a call's metadata nor the lists of
\* tasks and calls; a run body containing one makes its worker fail, a script
\* with one at the top level fails to load, with the store as it was.
C11_DeclOnlyNeedScope == []C11_Refused /\ [][C11_Step]_vars

\* C11 witness: the worker of the task whose run body is a subtask command
\* has failed.
C11_Witness ==
    \E c \in DOMAIN task_pool :
       /\ task_pool[c] = "fail"
       /\ HasDeclOnly(Unwrap(StubOf(c).run_body))
       /\ Unwrap(StubOf(c).run_body)[1].op = "subtask"

\* The tasks a def-task call registered (a subtask has no hidden depends
\* command) and the place each was written at: a span of length 1 is an
\* item of the top level of the script.
DefinedByDefTask(i) == task_stubs[i].depends_decl >= 0
AtTopLevel(sp) == Len(sp) = 1

\* C12: def-task succeeds only at the top level of the script: a def-task
\* call written inside a decl body or a run body defines no task, neither
\* when the script is parsed nor when the enclosing body is evaluated, so
\* every task registered by def-task was written at the top level.
C12_DefTaskOnlyAtTopLevel ==
    \A i \in 1..Len(task_stubs) :
       DefinedByDefTask(i) => AtTopLevel(task_stubs[i].span)

\* The first task of the list with the name n.
FirstNamed(stubs, n) == stubs[FindTaskStubId(stubs, n) + 1]

C13_UniqueNames ==
    \A i, j \in 1..Len(task_stubs) : task_stubs[i].name = task_stubs[j].name => i = j

\* add_task_stub on the task list as it stands, for every name: a name that
\* is present is refused with the span of the task that holds it and the
\* list stays; a name that is absent is appended with the next id.
C13_Refused ==
    \A n \in Names :
       LET stub == [name |-> n, concurrent |-> FALSE, span |-> <<0>>,
                    depends_decl |-> Len(task_stubs), decl_body |-> None,
                    run_body |-> Some(<<>>)]
           r == AddTaskStub(task_stubs, stub)
       IN IF \E i \in 1..Len(task_stubs) : task_stubs[i].name = n
          THEN /\ ~r.ok
               /\ r.stubs = task_stubs
               /\ r.existing_span = FirstNamed(task_stubs, n).span
          ELSE /\ r.ok
               /\ r.id = Len(task_stubs)
               /\ r.stubs = Append(task_stubs, stub)

\* The duplicate-definition errors collected so far, each naming a task of
\* the list and carrying that task's span.
C13_Reported ==
    \A k \in 1..Len(errors) :
       errors[k].kind = "TaskDuplicateDefinition"
       => /\ \E i \in 1..Len(task_stubs) : task_stubs[i].name = errors[k].name
          /\ errors[k].existing_span = FirstNamed(task_stubs, errors[k].name).span

\* The script with two definitions of A: after the second is parsed the
\* list still holds A once, at id 0 with the span of the first definition,
\* and the error carries that span.
C13_DuplicateScript ==
    (Plain(script) = Duplicate /\ parse_idx > 2)
    => /\ task_stubs[1].name = "A" /\ task_stubs[1].span = <<1>>
       /\ Len(task_stubs) = parse_idx - 2
       /\ errors = <<DuplicateDefinition("A", <<1>>)>>

\* C13: task names are unique in the store; registering a task under a name
\* already registered fails with the duplicate-definition error carrying the
\* span of the first definition, and leaves the task list as it was: the
\* first definition stays and no id is consumed.
C13_DuplicateRefused ==
    C13_UniqueNames /\ C13_Refused /\ C13_Reported /\ C13_DuplicateScript

\* C13 witness: the script with two definitions of A has been parsed to its
\* end, the third definition having received id 1.
C13_Witness ==
    /\ Plain(script) = Duplicate
    /\ parse_idx > Len(script)
    /\ Len(task_stubs) = 2
    /\ task_stubs[2].name = "B"
    /\ Len(errors) = 1

\* Dirtiness as the claims state it: a list is empty, or some existing source
\* is newer than every artifact (a path that does not exist has time 0).
StaleBy(md, fsys) ==
    \/ md.sources = <<>>
    \/ md.artifacts = <<>>
    \/ \E s \in Range(md.sources) :
          /\ fsys[s] > 0
          /\ \A a \in Range(md.artifacts) : fsys[a] < fsys[s]

\* The steps a worker can take, as <<before, after>>.
C14_WorkerSteps ==
    {<<"none", "spawned">>, <<"spawned", "running">>, <<"spawned", "skipped">>,
     <<"running", "ok">>, <<"running", "fail">>, <<"ok", "joined">>,
     <<"skipped", "joined">>, <<"fail", "failed">>}

Events(kind, c) == Cardinality({k \in 1..Len(log) : log[k] = <<kind, c>>})

C14_Step ==
    \A c \in DOMAIN task_pool :
       /\ task_pool'[c] # task_pool[c] => <<task_pool[c], task_pool'[c]>> \in C14_WorkerSteps
       /\ (task_pool[c] = "spawned" /\ task_pool'[c] # "spawned")
          => /\ UNCHANGED <<files, task_stubs, task_calls, scopes>>
             /\ IF StaleBy(CallMeta(task_calls, c), files)
                THEN /\ task_pool'[c] = "running"
                     /\ log' = Append(log, <<"running", c>>)
                ELSE /\ task_pool'[c] = "skipped"
                     /\ log' = Append(log, <<"skipping", c>>)
       /\ (task_pool[c] = "skipped" /\ task_pool'[c] # "skipped")
          => /\ UNCHANGED <<files, task_stubs, task_calls, scopes, log>>
             /\ result' # "TaskFailed"

C14_Inv ==
    /\ \A c \in DOMAIN task_pool :
          /\ Events("running", c) + Events("skipping", c) =
                (IF task_pool[c] \in {"none", "spawned"} THEN 0 ELSE 1)
          /\ task_pool[c] = "skipped" => Events("skipping", c) = 1
          /\ task_pool[c] \in {"running", "ok", "fail", "failed"}
             => Events("running", c) = 1
    /\ (phase = "exit" /\ result = "Ok")
       => \A k \in 1..Len(task_iter.order) :
             task_pool[task_iter.order[k].call_id] = "joined"

\* C14: a worker whose call is not dirty emits the skipping event, never
\* evaluates the run body and reports success, so its parent is still
\* spawned afterwards; a worker whose call is dirty emits the running event
\* and evaluates the run body exactly once.
C14_SkipOrRunOnce == []C14_Inv /\ [][C14_Step]_vars

\* C14 witness: a call was skipped and a call depending on it is running.
C14_Witness ==
    \E c, d \in 0..(Len(task_calls) - 1) :
       /\ c \in DepsOf(d)
       /\ Events("skipping", c) = 1
       /\ task_pool[c] = "joined"
       /\ task_pool[d] = "running"

\* The times of the paths of a list that exist, and the greatest of a
\* non-empty set of times.
ExistingTimes(paths, fsys) == {fsys[p] : p \in {q \in Range(paths) : fsys[q] > 0}}
Greatest(T) == CHOOSE t \in T : \A u \in T : u <= t

C15_Expected(src, art, fsys) ==
    IF src = <<>> \/ art = <<>> THEN TRUE
    ELSE IF ExistingTimes(src, fsys) = {} THEN FALSE
    ELSE IF ExistingTimes(art, fsys) = {} THEN TRUE
    ELSE Greatest(ExistingTimes(src, fsys)) > Greatest(ExistingTimes(art, fsys))

\* C15: is_dirty is true when either list is empty; otherwise it is true
\* exactly when the greatest time among the existing sources is strictly
\* greater than the greatest time among the existing artifacts, no existing
\* path comparing below every time: an existing source with no existing
\* artifact is dirty, no existing source is not dirty (with or without an
\* existing artifact), and equal times are not dirty.
C15_IsDirty ==
    (phase = "is_dirty" /\ result # "none")
    => LET md == CallMeta(task_calls, 0)
       IN (result = "dirty") <=> C15_Expected(md.sources, md.artifacts, files)

\* C15 witness: is_dirty has answered "not dirty" for an existing source and
\* an existing artifact of the same time.
C15_Witness ==
    /\ phase = "is_dirty" /\ result = "clean"
    /\ LET md == CallMeta(task_calls, 0)
       IN /\ md.sources = <<"s.txt">> /\ md.artifacts = <<"a.out">>
          /\ files["s.txt"] = 1 /\ files["a.out"] = 1

\* The second process on the files a first, successful one left.
SecondRun == prev_result = "Ok"
\* Every call of the store has metadata with sources and artifacts.
AllDeclared ==
    \A c \in 1..Len(task_calls) :
       /\ IsSome(task_calls[c].metadata)
       /\ Unwrap(task_calls[c].metadata).sources # <<>>
       /\ Unwrap(task_calls[c].metadata).artifacts # <<>>
NoRunningEvent == \A k \in 1..Len(log) : log[k][1] = "skipping"

\* C16 as stated: after a first run that succeeded, with sources and
\* artifacts declared by every call and no file changed since, the second
\* run of the same root evaluates no run body; every worker reports
\* skipping.
C16_SecondRunSkipsAll == (SecondRun /\ AllDeclared) => NoRunningEvent

\* The first run left every call up to date: no call has an existing source
\* newer than all its artifacts.
UpToDateAtStart ==
    \A c \in 1..Len(task_calls) :
       ~StaleBy(Unwrap(task_calls[c].metadata), start_files)

\* C16 amended: if moreover the first run left every call up to date, the
\* second run evaluates no run body and leaves the files as they were.
C16_CleanSecondRunSkipsAll ==
    (SecondRun /\ AllDeclared /\ UpToDateAtStart)
    => (NoRunningEvent /\ files = start_files)

\* C16 witness: the first run wrote both artifacts, the second run has ended
\* with both workers skipped.
C16_Witness ==
    /\ SecondRun /\ AllDeclared /\ UpToDateAtStart
    /\ start_files["b.out"] > 2
    /\ phase = "exit" /\ result = "Ok"
    /\ Len(log) = 2

\* C17: with the force option set every call is treated as dirty: no worker
\* reports skipping, and the run body of every node of the sequence is
\* evaluated whatever the modification times of its sources and artifacts.
C17_ForceRunsAll ==
    force => \A k \in 1..Len(log) : log[k][1] # "skipping"

\* The fan: a root R = D depending on X, Y, Z = A, B, C, all three marked
\* concurrent.
ConcurrentFan ==
    /\ Plain(script) \in {Fan, FanX}
    /\ task_name = "D"
    /\ \A i \in 1..3 : script[i].concurrent
\* The calls of the tasks named in N.
CallsOf(N) == {c \in 0..(Len(task_calls) - 1) : TaskName(task_calls, task_stubs, c) \in N}
InFlight(c) == task_pool[c] \in {"spawned", "running", "skipped", "ok", "fail"}

C18_Inv ==
    ConcurrentFan
    => /\ \A r \in CallsOf({"D"}) :
            Spawned(r) => /\ Cardinality(CallsOf({"A", "B", "C"})) = 3
                          /\ \A c \in CallsOf({"A", "B", "C"}) : task_pool[c] = "joined"
       /\ phase = "join"
          => \A c \in CallsOf({"A", "B", "C"}) : Spawned(c)

C18_Step ==
    (ConcurrentFan /\ phase = "spawn" /\ phase' = "join")
    => /\ handles' = CallsOf({"A", "B", "C"})
       /\ Cardinality(handles') = 3

\* C18: for a root R depending on X, Y and Z, all marked concurrent, the
\* first round of spawning puts X, Y and Z in flight together, and in every
\* execution R is spawned only after X, Y and Z have all been joined with
\* success.
C18_FanOut == []C18_Inv /\ [][C18_Step]_vars

\* C18 witness: X, Y and Z are evaluating their run bodies at the same time.
C18_Witness ==
    /\ ConcurrentFan
    /\ Cardinality(CallsOf({"A", "B", "C"})) = 3
    /\ \A c \in CallsOf({"A", "B", "C"}) : task_pool[c] = "running" /\ c \in handles

\* C19: if the evaluation of the decl body of a call of the dependency
\* closure fails, by raising an error or by returning false, run stops
\* populating, returns EvalFailed, and no run body is evaluated: no tree is
\* built and no worker is spawned.
C19_DeclFailureAbortsRun ==
    populated \in {"false", "err"}
    => /\ phase = "exit" /\ result = "EvalFailed"
       /\ build_tree = None
       /\ log = <<>>

\* Nothing of the script has been evaluated: no call, no scope, no worker
\* event, no file written.
NothingEvaluated ==
    /\ task_calls = <<>> /\ scopes = {} /\ root_call = None
    /\ populated = "none" /\ build_tree = None
    /\ log = <<>> /\ files = start_files

\* The scripts with, in this order: a host parse error, a task defined
\* twice, a depends on a task not (yet) defined, a declarative task with a
\* body too many.
C20_BadScripts == {Unparsable, Duplicate, SelfDep, Cycle, CycleRev, DeclExtra}

C20_Inv ==
    /\ errors # <<>> => NothingEvaluated
    /\ (errors # <<>> /\ phase # "parse")
       => (phase = "exit" /\ result = "ParseFailed")
    /\ (Plain(script) \in C20_BadScripts /\ phase # "parse")
       => (phase = "exit" /\ result = "ParseFailed" /\ NothingEvaluated)
    /\ (Plain(script) \in C20_BadScripts /\ parse_idx > Len(script)) => errors # <<>>

\* C20: if the parse or the parse-time transformation of the script records
\* an error (host parse error, duplicate definition, depends on an unknown
\* task, declarative task with an extra body), load fails with ParseFailed
\* and no part of the script is evaluated; a script defining a task name
\* twice executes neither definition.
C20_ParseErrorsStopLoad == []C20_Inv

\* C20 witness: the script defining A twice has failed to load.
C20_Witness ==
    /\ Plain(script) = Duplicate
    /\ phase = "exit" /\ result = "ParseFailed"
    /\ \E k \in 1..Len(errors) : errors[k].kind = "TaskDuplicateDefinition"

\* The run ended because the build script could not be read.
IoFailure == result = "Other"

\* C21: the exit code is 0 for success, 1 for a user-attributable failure (a
\* task failed, an I/O failure such as an unreadable build script), 127 for
\* a parse or evaluation failure and 255 for an internal error.
C21_ExitCodes ==
    exit_code # -1
    => exit_code = (CASE result = "Ok" -> 0
                      [] result = "TaskFailed" \/ IoFailure -> 1
                      [] result \in {"ParseFailed", "EvalFailed"} -> 127
                      [] result = "Internal" -> 255)

\* The directories among a path and its ancestors, as depths, that hold a
\* build script: a file under one of the names.
HoldsScript(ent, dir) ==
    \E i \in 1..Len(BUILD_SCRIPT_NAMES) : IsFile(ent, Append(dir, BUILD_SCRIPT_NAMES[i]))
ScriptDepths(ent, path) ==
    {k \in 0..Len(path) : HoldsScript(ent, SubSeq(path, 1, k))}
Deepest(K) == CHOOSE k \in K : \A j \in K : j <= k
\* The first name of the precedence list that is a file in dir.
FirstScript(ent, dir) ==
    IF IsFile(ent, Append(dir, "build.quake")) THEN Append(dir, "build.quake")
    ELSE Append(dir, "build.quake.nu")

C22_Inv ==
    (phase = "locate" /\ result # "none")
    => LET ent == project.entries
           K == ScriptDepths(ent, project.asked)
       IN IF ~IsDirectory(ent, project.asked) \/ K = {}
          THEN result = "ProjectNotFound" /\ project.found = None
          ELSE /\ result = "Ok"
               /\ project.found =
                     Some([project_root |-> SubSeq(project.asked, 1, Deepest(K)),
                           build_script |->
                              FirstScript(ent, SubSeq(project.asked, 1, Deepest(K)))])

\* Each activation answers or goes on one directory higher.
C22_Step ==
    phase = "locate"
    => \/ result' # "none"
       \/ Len(project'.dir) < Len(project.dir)

\* C22: Project::locate(dir) returns the project rooted at the nearest
\* directory among dir and its ancestors that contains a build script, the
\* build script being the first name of [build.quake, build.quake.nu] that
\* is a file there; it returns ProjectNotFound when dir is not a directory
\* or no directory up to the root contains a build script; the upward walk
\* terminates.
C22_Locate == []C22_Inv /\ [][C22_Step]_vars

\* C22 witness: locate has walked up two directories to a directory holding
\* both names as files, passing a directory where the first name is a
\* directory.
C22_Witness ==
    /\ phase = "locate" /\ result = "Ok"
    /\ project.asked = DirChain
    /\ Len(Unwrap(project.found).project_root) = Len(DirChain) - 2
    /\ project.entries[Len(DirChain) - 2] = [n \in Range(BUILD_SCRIPT_NAMES) |-> "file"]
    /\ project.entries[Len(DirChain) - 1]["build.quake"] = "dir"

\* C23: an interrupt received by the orchestrator while workers are in
\* flight triggers a global abort: the cancellation flag of every worker in
\* the handles map is set, the map is emptied and no further task is
\* spawned.
C23_InterruptAbortsAll ==
    phase = "killed"
    => /\ handles = {}
       /\ \A c \in DOMAIN task_pool :
             task_pool[c] \in {"spawned", "running", "skipped", "ok", "fail"} => c \in ctrlc

\* ---------------------------------------------------------------- C24
\* The call ids of a tree in the order the traversal enters the nodes.
RECURSIVE PreIds(_)
RECURSIVE PreIdsAll(_)
PreIdsAll(children) ==
    IF children = <<>> THEN <<>>
    ELSE PreIds(Head(children)) \o PreIdsAll(Tail(children))
PreIds(node) == <<node.call_id>> \o PreIdsAll(node.children)

\* The call ids of the children of a node, in order.
KidIds(n) == [k \in 1..Len(n.children) |-> n.children[k].call_id]
\* Index of the first entry of list equal to d.
FirstAt(list, d) == CHOOSE i \in 1..Len(list) :
                       /\ list[i] = d
                       /\ \A j \in 1..(i - 1) : list[j] # d
\* list without the entries outside S and without repeated entries.
RECURSIVE KeepFirst(_, _)
KeepFirst(list, S) ==
    IF list = <<>> THEN <<>>
    ELSE IF Head(list) \in S
         THEN <<Head(list)>> \o KeepFirst(Tail(list), S \ {Head(list)})
         ELSE KeepFirst(Tail(list), S)
DepList(c) == CallMeta(task_calls, c).dependencies

\* Every reachable call is a node exactly once and nothing else is a node.
ExactlyReachable(tree, root) ==
    LET ids == PreIds(tree)
    IN /\ Range(ids) = ReachFrom({root})
       /\ Len(ids) = Cardinality(Range(ids))

\* The children of every node are entries of its dependency list in the
\* order of the list.
ChildrenInListOrder(tree) ==
    \A n \in NodesOf(tree) :
       KidIds(n) = KeepFirst(DepList(n.call_id), Range(KidIds(n)))

\* A dependency that is not a child of the node holding it had been entered
\* by the traversal before the node looked at it: it is the node itself, or
\* was entered before the node, or lies under a child that comes from an
\* earlier entry of the list.
AttachedAtFirstVisit(tree) ==
    LET ids == PreIds(tree)
    IN \A n \in NodesOf(tree) : \A d \in Range(DepList(n.call_id)) :
          d \notin Range(KidIds(n)) =>
             \/ d = n.call_id
             \/ Pos(ids, d) < Pos(ids, n.call_id)
             \/ \E k \in 1..Len(n.children) :
                   /\ FirstAt(DepList(n.call_id), n.children[k].call_id)
                         < FirstAt(DepList(n.call_id), d)
                   /\ d \in SubtreeIds(n.children[k])

\* C24: for any store, generate_run_tree(root) yields a tree in which every
\* call reachable from root through dependency lists is a node exactly once
\* and no other call is a node; a call reachable along several paths hangs
\* under the parent from which the depth-first traversal in list order
\* enters it first, and the children of a node keep the order of its
\* dependency list.
C24_RunTree ==
    (phase = "tree_only" /\ IsSome(build_tree)) =>
       /\ ExactlyReachable(Unwrap(build_tree), Unwrap(root_call))
       /\ ChildrenInListOrder(Unwrap(build_tree))
       /\ AttachedAtFirstVisit(Unwrap(build_tree))

\* C24 witness: a tree for a store in which call 2 is a dependency of both
\* call 0 and call 1 and depends back on call 0: call 2 hangs under call 1,
\* the first child of the root.
C24_Witness ==
    /\ phase = "tree_only"
    /\ root_call = Some(0)
    /\ DepList(0) = <<1, 2>>
    /\ DepList(1) = <<2>>
    /\ DepList(2) = <<0>>
    /\ build_tree = Some(Node(0, <<Node(1, <<Node(2, <<>>)>>)>>))

\* ---------------------------------------------------------------- C25
\* A step that spawns a worker starts from a store in which every call of
\* the dependency closure of the root call holds metadata and no decl body
\* is under evaluation.
C25_SpawnAfterPopulate ==
    (handles' \ handles # {}) =>
       /\ \A c \in ReachFrom({Unwrap(root_call)}) : IsSome(task_calls[c + 1].metadata)
       /\ scopes = {} /\ frames = <<>>

\* Once a worker has been spawned the store of calls and the scopes stay.
C25_PopulateBeforeSpawn ==
    (handles # {} \/ log # <<>>) =>
       /\ task_calls' = task_calls
       /\ UNCHANGED scopeVars

\* C25: within a run no worker is spawned and no run body is evaluated
\* before the decl bodies of all calls in the dependency closure of the root
\* call have been evaluated and their metadata committed; after the first
\* worker is spawned no decl body is evaluated and no call is registered.
C25_TwoPhase == [][C25_SpawnAfterPopulate /\ C25_PopulateBeforeSpawn]_vars

\* ---------------------------------------------------------------- C26
OrderIds == {task_iter.order[i].call_id : i \in 1..Len(task_iter.order)}
AllJoined == \A c \in OrderIds : task_pool[c] = "joined"
NoneInFlight == \A c \in DOMAIN task_pool : task_pool[c] \in {"none", "joined"}
Exhausted == task_iter.next = Len(task_iter.order) + 1

\* The loop has returned success exactly when every node was spawned and
\* its worker joined with success, and then no handle is left; while the
\* loop runs, nodes remain unspawned only while some worker is in flight.
C26_Inv ==
    /\ (phase = "exit" /\ IsSome(build_tree)) => (result = "Ok" <=> AllJoined)
    /\ (phase = "exit" /\ result = "Ok") => (handles = {} /\ Exhausted /\ IsSome(build_tree))
    /\ (phase = "join" /\ NoneInFlight) => Exhausted

\* A worker is spawned for a call at most once.
C26_Step ==
    \A c \in DOMAIN task_pool :
       (task_pool'[c] = "spawned" /\ task_pool[c] # "spawned") => task_pool[c] = "none"

\* C26: with workers that finish, the scheduler loop terminates; it returns
\* success exactly when every node of the flattened sequence has been
\* spawned exactly once and its worker joined with success, and then the
\* handles map is empty; the loop never ends with a node left unspawned
\* while no worker is in flight.
C26_LoopTerminates ==
    /\ []C26_Inv
    /\ [][C26_Step]_vars
    /\ (phase = "spawn") ~> (phase = "exit")

\* C26 witness: the loop has returned success after joining the workers of
\* four nodes, two of them in flight together at some point.
C26_Witness ==
    /\ phase = "exit" /\ result = "Ok"
    /\ Cardinality(OrderIds) = 4
    /\ AllJoined
    /\ handles = {}

\* ---------------------------------------------------------------- C27
\* The call ids of the nodes i..j of the flattened sequence.
IdsAt(order, i, j) == {order[k].call_id : k \in i..j}
\* Position of the call c in the flattened sequence.
IdPos(c) == CHOOSE k \in 1..Len(task_iter.order) : task_iter.order[k].call_id = c
NewlySpawned == {c \in DOMAIN task_pool : task_pool[c] = "none" /\ task_pool'[c] = "spawned"}

\* The workers spawned so far are those of the nodes before the iterator,
\* and the dependencies of every call of the sequence stand in the sequence
\* in the order of its dependency list.
C27_Inv ==
    IsSome(build_tree) =>
       /\ task_iter.next <= Len(task_iter.order) + 1
       /\ {c \in DOMAIN task_pool : Spawned(c)}
             = IdsAt(task_iter.order, 1, task_iter.next - 1)
       /\ \A c \in OrderIds : \A i, j \in 1..Len(DepList(c)) :
             i < j => IdPos(DepList(c)[i]) < IdPos(DepList(c)[j])

\* A step spawns the workers of the nodes the iterator passes, one worker
\* for each, and of no other node.
C27_Step ==
    /\ task_iter'.next >= task_iter.next
    /\ task_iter'.next <= Len(task_iter'.order) + 1
    /\ NewlySpawned = IdsAt(task_iter'.order, task_iter.next, task_iter'.next - 1)
    /\ Cardinality(NewlySpawned) = task_iter'.next - task_iter.next

\* C27: workers are spawned in exactly the order of the flattened sequence:
\* the k-th spawn of a run is the k-th node of flatten(), no node is skipped
\* or reordered; so the dependencies of a call are spawned in the
\* left-to-right order in which its decl body declared them.
C27_SpawnOrder == []C27_Inv /\ [][C27_Step]_vars

\* C27 witness: a call with two dependencies, the worker of the first joined
\* and the worker of the second spawned, the call itself not yet spawned.
C27_Witness ==
    /\ phase = "join"
    /\ \E c \in OrderIds :
          /\ Len(DepList(c)) = 2
          /\ task_pool[DepList(c)[1]] = "joined"
          /\ task_pool[DepList(c)[2]] = "spawned"
          /\ task_pool[c] = "none"

\* ---------------------------------------------------------------- C28
\* eval_task_decl_body is about to call push_scope.
AtPushScope ==
    /\ phase = "populate" /\ frames # <<>> /\ Top.st = "enter"
    /\ IsSome(StubOf(Top.call_id).decl_body)

\* push_scope with the scope-id variable non-negative fails and leaves the
\* scope table, the variable and the store as they are.
C28_Step ==
    (AtPushScope /\ scope_var >= 0) =>
       /\ populated' = "err" /\ result' = "EvalFailed"
       /\ UNCHANGED <<scopeVars, storeVars, frames>>

\* At most one scope is in the table, and it is the one the variable names.
C28_Inv ==
    /\ Cardinality(scopes) <= 1
    /\ scope_var >= 0 => \E sc \in scopes : sc.id = scope_var

\* C28: entering a decl body (push_scope) while the scope-id variable holds
\* a non-negative scope id fails with NestedScopes and leaves the scope
\* table and the scope-id variable unchanged; hence at most one scope is
\* active on an evaluation stack at any time.
C28_NestedScopes == []C28_Inv /\ [][C28_Step]_vars

\* C28 witness: a second run on the engine was refused at push_scope: the
\* scope left by the first run is still the only one.
C28_Witness ==
    /\ prev_result = "EvalFailed"
    /\ phase = "exit" /\ populated = "err"
    /\ Top.st = "enter"
    /\ Cardinality(scopes) = 1 /\ scope_var = 0

\* ---------------------------------------------------------------- C29
\* A decl body is being evaluated: eval_task_decl_body has pushed its scope
\* and has not returned.
InDeclBody == phase = "populate" /\ frames # <<>> /\ Top.st = "body"

\* C29: whenever no decl body is being evaluated the scope table is empty
\* and the scope-id variable is -1: eval_task_decl_body destroys the scope
\* it created and resets the variable on every exit from the decl body, an
\* exit with an error included, so a later decl-body evaluation on the same
\* engine is not rejected as nested.
C29_ScopeReleased ==
    ~InDeclBody => (scopes = {} /\ scope_var = -1)

\* ---------------------------------------------------------------- C30
\* The command the decl body under evaluation is about to execute.
AtCommand == InDeclBody /\ Top.pc <= Len(Unwrap(StubOf(Top.call_id).decl_body))
NextCommand == Unwrap(StubOf(Top.call_id).decl_body)[Top.pc]
\* The definition of the task named n in the script, when it is written at
\* the top level.
TopLevelDefs(n) == {i \in 1..Len(script) : IsDef(script[i]) /\ script[i].name = n}

\* The execution of a rewritten depends command in a scope: one call is
\* appended to the store, to the task the command names and with its
\* arguments; its id goes to the end of the dependency list of the scope;
\* the calls there were, the other fields of the scope and the tasks stay.
C30_Step ==
    (AtCommand /\ NextCommand.op = "depends_task" /\ scope_var >= 0) =>
       LET new == Len(task_calls)
           sc == CurrentScope
           written == script[CHOOSE i \in TopLevelDefs(StubOf(Top.call_id).name) : TRUE]
       IN /\ Len(task_calls') = new + 1
          /\ SubSeq(task_calls', 1, new) = task_calls
          /\ task_calls'[new + 1] = [task_id |-> NextCommand.task_id,
                                     arguments |-> NextCommand.args,
                                     metadata |-> None]
          /\ TopLevelDefs(StubOf(Top.call_id).name) # {}
                => /\ written.closures[1][Top.pc].op = "depends"
                   /\ written.closures[1][Top.pc].name
                         = task_stubs[NextCommand.task_id + 1].name
                   /\ written.closures[1][Top.pc].args = NextCommand.args
          /\ sc.call_id = Top.call_id
          /\ scopes' = {[sc EXCEPT !.meta.dependencies = Append(@, new)]}
          /\ UNCHANGED <<task_stubs, scope_var>>

IsRegistering(cmd) == cmd.op \in {"depends_task", "subtask"}

\* The dependency list committed for a call holds one call for each depends
\* and subtask command of its decl body, in the order of the commands, each
\* registered after the one before.
C30_Inv ==
    \A c \in 0..(Len(task_calls) - 1) :
       (IsSome(task_calls[c + 1].metadata) /\ IsSome(StubOf(c).decl_body)) =>
          LET deps == DepList(c)
              cmds == SelectSeq(Unwrap(StubOf(c).decl_body), IsRegistering)
          IN /\ Len(deps) = Len(cmds)
             /\ \A k \in 1..Len(deps) :
                   /\ task_calls[deps[k] + 1].task_id
                         = IF cmds[k].op = "depends_task" THEN cmds[k].task_id
                           ELSE FindTaskStubId(task_stubs, cmds[k].name)
                   /\ deps[k] > c
                   /\ k > 1 => deps[k] > deps[k - 1]

\* C30: each execution of the rewritten depends command inside an active
\* decl-body scope registers exactly one new call to the task the command
\* names, with the supplied arguments, and appends its call_id at the end of
\* the dependency list of the call bound to the current scope; the
\* dependency list of a call is therefore the sequence of its depends and
\* subtask executions in execution order, and no other call's metadata
\* changes.
C30_DependsAppends == []C30_Inv /\ [][C30_Step]_vars

\* C30 witness: a scope whose dependency list holds two calls, registered by
\* two depends commands of the decl body under evaluation.
C30_Witness ==
    /\ InDeclBody
    /\ scope_var >= 0
    /\ Len(CurrentScope.meta.dependencies) = 2
    /\ \A k \in 1..2 : Unwrap(StubOf(Top.call_id).decl_body)[k].op = "depends_task"
    /\ Top.pc = 3

\* ---------------------------------------------------------------- C31
\* C31: each execution of subtask inside an active decl-body scope registers
\* a fresh task whose only body is the supplied closure as run body,
\* registers one call to that task and appends the new call_id to the
\* dependencies of the current scope; this holds for every evaluation of the
\* enclosing decl body, also when the enclosing task is called more than
\* once in the same process.
C31_Step ==
    (AtCommand /\ NextCommand.op = "subtask" /\ scope_var >= 0) =>
       LET task == Len(task_stubs)
           new == Len(task_calls)
           sc == CurrentScope
       IN /\ Len(task_stubs') = task + 1
          /\ SubSeq(task_stubs', 1, task) = task_stubs
          /\ task_stubs'[task + 1].name = NextCommand.name
          /\ ~IsSome(task_stubs'[task + 1].decl_body)
          /\ IsSome(task_stubs'[task + 1].run_body)
          /\ Len(task_calls') = new + 1
          /\ SubSeq(task_calls', 1, new) = task_calls
          /\ task_calls'[new + 1].task_id = task
          /\ scopes' = {[sc EXCEPT !.meta.dependencies = Append(@, new)]}

C31_SubtaskRegisters == [][C31_Step]_vars

\* ---------------------------------------------------------------- C32
\* The ids of the tasks the rewritten depends commands of the decl body of
\* task t (an id) name.
TaskDeps(t) ==
    IF IsSome(task_stubs[t + 1].decl_body)
    THEN {cmd.task_id : cmd \in {c \in Range(Unwrap(task_stubs[t + 1].decl_body)) :
                                    c.op = "depends_task"}}
    ELSE {}
RECURSIVE TaskReach(_)
TaskReach(S) ==
    LET T == S \cup UNION {TaskDeps(t) : t \in S}
    IN IF T = S THEN S ELSE TaskReach(T)
\* The closure of the def-task call def that is its decl body, <<>> if none.
DeclClosure(def) ==
    IF (Len(def.closures) = 2 /\ ~def.declarative) \/ (Len(def.closures) = 1 /\ def.declarative)
    THEN def.closures[1] ELSE <<>>
Loaded == phase \in {"loaded", "populate", "tree", "spawn", "join"} \/ result = "Ok"

\* Every rewritten depends names a task registered before the task whose
\* decl body holds it, and the tasks of a loaded script do not depend on
\* themselves, directly or through other tasks.
C32_Inv ==
    /\ \A t \in 0..(Len(task_stubs) - 1) : \A d \in TaskDeps(t) : d >= 0 /\ d < t
    /\ Loaded => \A t \in 0..(Len(task_stubs) - 1) :
                    t \notin TaskReach(TaskDeps(t))

\* parse_def_task on a def-task call of the top level: a depends of its decl
\* body that names a task not registered yet (the task itself, a later task,
\* no task at all) is recorded as TaskNotFound; any other is rewritten to the
\* task of that name.
C32_Step ==
    (phase = "parse" /\ parse_idx <= Len(script) /\ IsDef(script[parse_idx])) =>
       LET def == script[parse_idx]
           body == DeclClosure(def)
       IN \A k \in 1..Len(body) :
             body[k].op = "depends" =>
                IF FindTaskStubId(task_stubs, body[k].name) < 0
                THEN TaskNotFound(body[k].name) \in Range(errors')
                ELSE /\ FindTaskStubId(task_stubs', def.name) = Len(task_stubs)
                        => /\ Unwrap(task_stubs'[Len(task_stubs')].decl_body)[k].op
                                 = "depends_task"
                           /\ Unwrap(task_stubs'[Len(task_stubs')].decl_body)[k].task_id
                                 = FindTaskStubId(task_stubs, body[k].name)

\* C32: a depends reference resolves at parse time only to a task already
\* registered when the enclosing def-task is processed, a task defined
\* earlier in the build script with a smaller task id; a depends naming the
\* enclosing task itself, a task defined later, or no task fails with
\* TaskNotFound; so the dependency relation over the tasks of every
\* successfully loaded script is acyclic.
C32_DependsResolvesEarlier == []C32_Inv /\ [][C32_Step]_vars

\* C32 witness: the script whose only task depends on itself has been
\* parsed: the reference was refused and the load failed.
C32_Witness ==
    /\ script = SelfDep
    /\ TaskNotFound("A") \in Range(errors)
    /\ phase = "exit" /\ result = "ParseFailed"

\* ---------------------------------------------------------------- C33
CallIds == 0..(Len(task_calls) - 1)
\* The places (call, index) of dependency lists that hold the call c.
Occurrences(c) == {pk \in CallIds \X (1..MaxCalls) :
                     pk[2] <= Len(DepList(pk[1])) /\ DepList(pk[1])[pk[2]] = c}
FirstPhaseDone ==
    phase \in {"tree", "spawn", "join"} \/ (phase = "exit" /\ IsSome(build_tree))

\* C33: after the first phase of a run every call other than the root
\* occurs in exactly one dependency list and once in it, every depends and
\* subtask execution having registered a fresh call; the calls form a tree
\* rooted at the root call, the children of every run-tree node are the
\* dependencies of its call in order, and every dependency of a call has
\* completed before the worker of the call starts.
C33_CallsFormTree ==
    FirstPhaseDone =>
       /\ Occurrences(Unwrap(root_call)) = {}
       /\ \A c \in CallIds \ {Unwrap(root_call)} : Cardinality(Occurrences(c)) = 1
       /\ ReachFrom({Unwrap(root_call)}) = CallIds
       /\ IsSome(build_tree)
             => \A n \in NodesOf(Unwrap(build_tree)) : KidIds(n) = DepList(n.call_id)
       /\ \A c \in CallIds :
             Spawned(c) => \A d \in Range(DepList(c)) : task_pool[d] = "joined"

\* C33 witness: the worker of a call with two dependencies, one of which
\* has a dependency of its own, is running; the three are joined.
C33_Witness ==
    /\ phase = "join"
    /\ \E c \in CallIds :
          /\ task_pool[c] = "running"
          /\ Len(DepList(c)) = 2
          /\ \E d \in Range(DepList(c)) : Len(DepList(d)) = 1
          /\ \A d \in ReachFrom({c}) \ {c} : task_pool[d] = "joined"

\* ---------------------------------------------------------------- C34
\* The worker of c takes its decision in this step.
Decides(c) == task_pool[c] = "spawned" /\ task_pool'[c] # "spawned"
\* A dependency of c evaluated its run body in this run and a source of c
\* written since the start of the run is newer than every artifact of c.
FreshSource(c) ==
    LET md == CallMeta(task_calls, c)
    IN /\ md.artifacts # <<>>
       /\ \E d \in Range(md.dependencies) : Events("running", d) = 1
       /\ \E f \in Range(md.sources) :
             /\ files[f] > start_files[f]
             /\ \A a \in Range(md.artifacts) : files[a] < files[f]

\* The worker of a call decides when all dependencies of the call have been
\* joined, on the files as they are then: a source written by a dependency
\* in this run and newer than the artifacts makes the call run, and the
\* decision depends on the metadata and the files only.
C34_Step ==
    \A c \in DOMAIN task_pool :
       Decides(c) =>
          /\ \A d \in Range(DepList(c)) : task_pool[d] = "joined"
          /\ FreshSource(c) => task_pool'[c] = "running"
          /\ task_pool'[c] = "running" <=> StaleBy(CallMeta(task_calls, c), files)
          /\ task_pool'[c] = "skipped" <=> ~StaleBy(CallMeta(task_calls, c), files)

\* C34: the dirtiness of a call is evaluated inside its own worker, when the
\* worker starts and so after all its children have completed: if a child's
\* run body in the same run writes a file that is a source of the parent and
\* newer than the parent's artifacts, the parent is seen as dirty and its
\* run body is evaluated; whether a dependency ran or was skipped has no
\* other influence on the parent's dirtiness.
C34_DirtyAtWorkerStart == [][C34_Step]_vars

\* C34 witness: a call that was up to date on the files the run started
\* with is running, because the run body of its dependency wrote one of its
\* sources.
C34_Witness ==
    \E c \in CallIds :
       /\ phase = "join"
       /\ task_pool[c] = "running"
       /\ ~StaleBy(CallMeta(task_calls, c), start_files)
       /\ FreshSource(c)

\* ---------------------------------------------------------------- C35
\* The node of the tree with call id c.
NodeOf(tree, c) == CHOOSE n \in NodesOf(tree) : n.call_id = c
\* The call ids of a node and of its descendants.
RECURSIVE Under(_)
Under(n) == {n.call_id} \cup UNION {Under(n.children[i]) : i \in 1..Len(n.children)}

\* abort_tree sets the flags of the workers in the map that belong to the
\* node or to a descendant, and only those; the map keeps its entries.
\* abort_all sets the flag of every worker in the map and empties the map.
C35_Step ==
    (phase = "abort_only" /\ log = <<>> /\ log' # <<>>) =>
       IF log'[1][1] = "abort_tree"
       THEN LET n == NodeOf(Unwrap(build_tree), log'[1][2])
            IN /\ handles' = handles
               /\ \A c \in TreeCallIds :
                     c \in ctrlc' <=> (c \in ctrlc \/ (c \in handles /\ c \in Under(n)))
       ELSE /\ handles' = {}
            /\ ctrlc' = ctrlc \cup handles

\* No worker has failed in this run.
NoFailure ==
    /\ result \notin {"TaskFailed", "Internal"}
    /\ \A c \in DOMAIN task_pool : task_pool[c] \notin {"fail", "failed"}

\* In a run without failure no cancellation flag is set.
C35_Inv == (phase # "abort_only" /\ NoFailure) => ctrlc = {}

\* C35: abort_tree(node) sets the cancellation flag of, and aborts, exactly
\* the workers in the handles map whose call id is the node's own or that
\* of one of its descendants in the run tree; it leaves the flags of all
\* other workers unchanged and removes no entry from the map.  abort_all
\* sets the flag of every worker in the map and leaves the map empty.  In a
\* run without failure spawn_task never cancels a running worker.
C35_AbortFrame == []C35_Inv /\ [][C35_Step]_vars

\* C35 witness: abort_tree on a node with a child: the worker of the child
\* was flagged, the worker of a call outside the subtree was not, and the
\* map still holds both.
C35_Witness ==
    /\ phase = "abort_only"
    /\ log # <<>> /\ log[1][1] = "abort_tree"
    /\ LET n == NodeOf(Unwrap(build_tree), log[1][2])
       IN /\ Len(n.children) = 1
          /\ n.children[1].call_id \in ctrlc
          /\ \E c \in handles \ Under(n) : c \notin ctrlc

\* ------------------------------------------------------------------------
\* The lock around the state: which routine holds it over which of its steps.
\* ------------------------------------------------------------------------

\* How many evaluations may be nested in one another on one thread.
MaxNest == 2

\* Every variable of the engine but the store at rest, in a phase in which
\* only the operation under study acts.
Dormant(ph) ==
    /\ script = <<>>
    /\ task_name = "A"
    /\ force = FALSE
    /\ prev_result = "none"
    /\ files = [p \in Paths |-> 0]
    /\ start_files = files
    /\ project = LocatedProject
    /\ phase = ph
    /\ parse_idx = 1
    /\ errors = <<>>
    /\ scopes = {}
    /\ scope_var = -1
    /\ frames = <<>>
    /\ root_call = None
    /\ populated = "none"
    /\ build_tree = None
    /\ task_iter = [order |-> <<>>, next |-> 1]
    /\ handles = {}
    /\ ctrlc = {}
    /\ task_pool = [c \in 0..(MaxCalls - 1) |-> "none"]
    /\ result = "none"
    /\ exit_code = -1
    /\ failed_task = None
    /\ log = <<>>

\* The routines that take the lock, each as the sequence of its steps:
\* "write" and "read" take a guard, "release" is the end of the guard's life,
\* "eval" is an evaluation by the host (a body, or the arguments of the call).
Commands == {"subtask", "depends", "depends_task", "sources", "produces"}
Routines == {"populate", "worker"} \cup Commands
LockSteps(r) ==
    CASE r = "populate" ->
           \* eval_task_decl_body: the stub is read in a scope of its own, the
           \* scope is pushed under a temporary guard, the body is evaluated,
           \* the scope is popped under a new guard; then the dependency list
           \* is copied out under a read guard.
           <<"write", "release", "write", "release", "eval", "write", "release",
             "read", "release">>
      [] r = "worker" ->
           \* name and dirtiness under a read guard in a scope of its own, the
           \* run body's id under another, then the run body.
           <<"read", "release", "write", "release", "eval">>
      [] r = "subtask" ->
           \* the guard is taken first and lives to the end of run; the
           \* arguments and the flag are evaluated after it is taken.
           <<"write", "eval", "release">>
      [] r = "depends" -> <<"read", "release">>
      [] r = "depends_task" -> <<"write", "release">>
      [] r = "sources" -> <<"eval", "write", "release">>
      [] r = "produces" -> <<"eval", "write", "release">>

\* The routine a thread starts with.
Entry(t) == IF t = "engine" THEN "populate" ELSE "worker"

\* The frame on top of a thread's stack, and the step it is at ("done" past
\* the last one).
TopFrame(t) == stacks[t][Len(stacks[t])]
StepOf(f) ==
    IF f.pc <= Len(LockSteps(f.routine)) THEN LockSteps(f.routine)[f.pc] ELSE "done"
AtStep(t) == IF stacks[t] = <<>> THEN "idle" ELSE StepOf(TopFrame(t))
Advance(t) ==
    [stacks EXCEPT ![t] = [@ EXCEPT ![Len(@)] = [@ EXCEPT !.pc = @ + 1]]]

\* A thread holds the lock when it is its writer or one of its readers.
Holds(t) == state_lock.writer = Some(t) \/ t \in state_lock.readers

\* The variables of the engine proper.
engineVars == <<inputVars, cliVars, files, phase, parse_idx, errors, storeVars,
                scopeVars, frames, root_call, populated, build_tree, task_iter,
                handles, ctrlc, task_pool, failed_task, log, result>>

LockInit ==
    /\ Dormant("lock_only")
    /\ task_stubs = <<>>
    /\ task_calls = <<>>
    /\ SideIdle

\* A thread starts its routine.
Begin(t) ==
    /\ phase = "lock_only"
    /\ stacks[t] = <<>>
    /\ stacks' = [stacks EXCEPT ![t] = <<[routine |-> Entry(t), pc |-> 1]>>]
    /\ UNCHANGED <<state_lock, start_calls, engineVars>>

\* RwLock::write: granted when there is neither a writer nor a reader; the
\* lock is not reentrant.
AcquireWrite(t) ==
    /\ phase = "lock_only"
    /\ AtStep(t) = "write"
    /\ state_lock = Unlocked
    /\ state_lock' = [state_lock EXCEPT !.writer = Some(t)]
    /\ stacks' = Advance(t)
    /\ UNCHANGED <<start_calls, engineVars>>

\* RwLock::read: granted when there is no writer.
AcquireRead(t) ==
    /\ phase = "lock_only"
    /\ AtStep(t) = "read"
    /\ state_lock.writer = None
    /\ state_lock' = [state_lock EXCEPT !.readers = @ \cup {t}]
    /\ stacks' = Advance(t)
    /\ UNCHANGED <<start_calls, engineVars>>

\* The guard is dropped.
Release(t) ==
    /\ phase = "lock_only"
    /\ AtStep(t) = "release"
    /\ state_lock' = [writer |-> IF state_lock.writer = Some(t) THEN None
                                 ELSE state_lock.writer,
                      readers |-> state_lock.readers \ {t}]
    /\ stacks' = Advance(t)
    /\ UNCHANGED <<start_calls, engineVars>>

\* The host evaluates: the evaluation calls a command of the engine, ...
EvalCommand(t) ==
    /\ phase = "lock_only"
    /\ AtStep(t) = "eval"
    /\ Len(stacks[t]) <= MaxNest
    /\ \E r \in Commands :
          stacks' = [stacks EXCEPT ![t] = Append(@, [routine |-> r, pc |-> 1])]
    /\ UNCHANGED <<state_lock, start_calls, engineVars>>

\* ... or comes to its end.
EvalDone(t) ==
    /\ phase = "lock_only"
    /\ AtStep(t) = "eval"
    /\ stacks' = Advance(t)
    /\ UNCHANGED <<state_lock, start_calls, engineVars>>

\* A routine returns to the evaluation that called it, or the thread is done.
Return(t) ==
    /\ phase = "lock_only"
    /\ AtStep(t) = "done"
    /\ stacks' = [stacks EXCEPT ![t] = SubSeq(@, 1, Len(@) - 1)]
    /\ UNCHANGED <<state_lock, start_calls, engineVars>>

LockNext ==
    \E t \in Threads :
       \/ Begin(t)
       \/ AcquireWrite(t)
       \/ AcquireRead(t)
       \/ Release(t)
       \/ EvalCommand(t)
       \/ EvalDone(t)
       \/ Return(t)

LockSpec == LockInit /\ [][LockNext]_vars

\* A thread waits for a lock that it holds itself: it waits for ever.
SelfDeadlock(t) ==
    \/ AtStep(t) = "write" /\ Holds(t)
    \/ AtStep(t) = "read" /\ state_lock.writer = Some(t)

\* C36: no thread holds the lock around the state while the host evaluates a
\* body or an expression, so a command called by the evaluation can take the
\* lock: no thread holds the lock at a step at which the host evaluates, and
\* no thread waits for a lock it holds.
C36_NoLockAcrossEval ==
    \A t \in Threads :
       /\ AtStep(t) = "eval" => ~Holds(t)
       /\ ~SelfDeadlock(t)

\* ---------------------------------------------------------------- C37
\* The stub parse_def_task registers for the top-level def-task at hand.
C37_New == task_stubs'[Len(task_stubs) + 1]

\* C37: def-task assigns its closures to bodies by their number and the
\* declarative flag: two closures without the flag are the decl body and the
\* run body in that order, one closure without the flag is the run body and
\* there is no decl body, one closure with the flag is the decl body and
\* there is no run body, and two closures with the flag record the extra-body
\* error among the late errors while the parse goes on.
C37_Step ==
    (/\ phase = "parse"
     /\ parse_idx <= Len(script)
     /\ IsDef(script[parse_idx])
     /\ script[parse_idx].closures # <<>>
     /\ FindTaskStubId(task_stubs, script[parse_idx].name) < 0)
    => LET def == script[parse_idx]
           n == Len(def.closures)
       IN /\ Len(task_stubs') > Len(task_stubs)
          /\ C37_New.name = def.name
          /\ (n = 2 /\ ~def.declarative) =>
                /\ C37_New.decl_body = Some(TransformBlock(def.closures[1], task_stubs))
                /\ C37_New.run_body = Some(def.closures[2])
                /\ DeclTaskHasExtraBody(def.name) \notin Range(errors')
          /\ (n = 1 /\ ~def.declarative) =>
                /\ C37_New.run_body = Some(def.closures[1])
                /\ C37_New.decl_body = None
                /\ DeclTaskHasExtraBody(def.name) \notin Range(errors')
          /\ (n = 1 /\ def.declarative) =>
                /\ C37_New.decl_body = Some(TransformBlock(def.closures[1], task_stubs))
                /\ C37_New.run_body = None
                /\ DeclTaskHasExtraBody(def.name) \notin Range(errors')
          /\ (n = 2 /\ def.declarative) =>
                /\ DeclTaskHasExtraBody(def.name) \in Range(errors')
                /\ parse_idx' = parse_idx + 1 /\ phase' = "parse"
C37_BodyAssignment == [][C37_Step]_vars

\* A script with a one-closure task and a declarative task with two closures
\* has been parsed.
C37_Witness ==
    /\ script = DeclExtra
    /\ parse_idx > Len(script)
    /\ DeclTaskHasExtraBody("B") \in Range(errors)
    /\ Len(task_stubs) = 2
    /\ task_stubs[1].decl_body = None /\ IsSome(task_stubs[1].run_body)

\* ---------------------------------------------------------------- C38
C38_Inv ==
    \A i \in 1..Len(task_stubs) :
       IsSome(task_stubs[i].decl_body) \/ IsSome(task_stubs[i].run_body)
\* A def-task call without a closure registers nothing.
C38_Step ==
    (/\ phase = "parse"
     /\ parse_idx <= Len(script)
     /\ IsDef(script[parse_idx])
     /\ script[parse_idx].closures = <<>>)
    => task_stubs' = task_stubs
\* C38: every task in the store has at least one body: neither def-task at
\* parse time nor subtask during the evaluation of a decl body registers a
\* task that has neither a decl body nor a run body.
C38_EveryTaskHasBody == []C38_Inv /\ [][C38_Step]_vars

\* A script whose second def-task has no body has been parsed: only the
\* first task is in the store.
C38_Witness ==
    /\ script = NoBody
    /\ parse_idx > Len(script)
    /\ Len(task_stubs) = 1
    /\ task_stubs[1].name = "A"

\* ------------------------------------------------------------------------
\* clear_all_task_call_metadata on the stores insert_task_call_metadata makes.
\* ------------------------------------------------------------------------

\* The depth at which the recursion is no longer followed.
MaxStack == 4

\* One task and a call to it for every id of TreeCallIds, without metadata.
ClearInit ==
    /\ Dormant("clear_only")
    /\ task_stubs = <<SubtaskStub(Sub("A", <<1>>))>>
    /\ task_calls = [i \in 1..Cardinality(TreeCallIds) |-> NewTaskCall(0, <<>>)]
    /\ SideIdle

\* The recursion of clear_all_task_call_metadata: one frame for every call of
\* the function that has got past its early return.
ClearStack == stacks["engine"]
ClearCalled == log # <<>>

\* clear_all_task_call_metadata(c) up to its loop: it returns at once when
\* the call has no metadata, else it copies the dependency list.
EnterClear(stack, calls, c) ==
    IF calls[c + 1].metadata = None THEN stack
    ELSE Append(stack, [routine |-> "clear", call_id |-> c,
                        dependencies |-> Unwrap(calls[c + 1].metadata).dependencies,
                        pc |-> 1])

\* insert_task_call_metadata, before the clearing.
InsertMeta ==
    /\ phase = "clear_only"
    /\ ~ClearCalled
    /\ \E c \in TreeCallIds, d \in DepLists :
          task_calls' = InsertTaskCallMetadata(task_calls, c,
                           [dependencies |-> d, sources |-> <<>>, artifacts |-> <<>>])
    /\ UNCHANGED <<inputVars, sideVars, cliVars, files, phase, parse_idx, errors,
                   task_stubs, scopeVars, frames, root_call, populated, schedVars, result>>

\* clear_all_task_call_metadata is called on a call of the store.
ClearStart ==
    /\ phase = "clear_only"
    /\ ~ClearCalled
    /\ \E c \in TreeCallIds :
          /\ log' = <<<<"clear", c>>>>
          /\ stacks' = [stacks EXCEPT !["engine"] = EnterClear(<<>>, task_calls, c)]
    /\ start_calls' = task_calls
    /\ UNCHANGED <<inputVars, state_lock, cliVars, files, phase, parse_idx, errors,
                   storeVars, scopeVars, frames, root_call, populated, build_tree,
                   task_iter, handles, ctrlc, task_pool, failed_task, result>>

\* One turn of the loop: the function calls itself on the next dependency.
ClearDep ==
    /\ phase = "clear_only"
    /\ ClearStack # <<>>
    /\ Len(ClearStack) < MaxStack
    /\ LET top == ClearStack[Len(ClearStack)]
       IN /\ top.pc <= Len(top.dependencies)
          /\ stacks' = [stacks EXCEPT !["engine"] =
                           EnterClear([ClearStack EXCEPT ![Len(ClearStack)].pc = top.pc + 1],
                                      task_calls, top.dependencies[top.pc])]
    /\ UNCHANGED <<inputVars, state_lock, start_calls, cliVars, files, phase, parse_idx,
                   errors, storeVars, scopeVars, frames, root_call, populated, schedVars,
                   result>>

\* After the loop the call's own metadata is cleared and the function returns.
ClearOwn ==
    /\ phase = "clear_only"
    /\ ClearStack # <<>>
    /\ LET top == ClearStack[Len(ClearStack)]
       IN /\ top.pc > Len(top.dependencies)
          /\ task_calls' = [task_calls EXCEPT ![top.call_id + 1].metadata = None]
          /\ stacks' = [stacks EXCEPT !["engine"] = SubSeq(@, 1, Len(@) - 1)]
    /\ UNCHANGED <<inputVars, state_lock, start_calls, cliVars, files, phase, parse_idx,
                   errors, task_stubs, scopeVars, frames, root_call, populated, schedVars,
                   result>>

ClearNext == InsertMeta \/ ClearStart \/ ClearDep \/ ClearOwn

ClearSpec == ClearInit /\ [][ClearNext]_vars

\* ---------------------------------------------------------------- C39
\* The calls reachable from the calls of S through the dependency lists the
\* store held when the clearing began.
RECURSIVE C39_Reach(_)
C39_Reach(S) ==
    LET T == S \cup UNION {Range(Unwrap(start_calls[c + 1].metadata).dependencies) :
                             c \in {x \in S : IsSome(start_calls[x + 1].metadata)}}
    IN IF T = S THEN S ELSE C39_Reach(T)
C39_Returned == ClearCalled /\ ClearStack = <<>>
C39_Cleared ==
    LET reach == C39_Reach({log[1][2]})
    IN /\ Len(task_calls) = Len(start_calls)
       /\ \A c \in TreeCallIds :
             /\ c \in reach => task_calls[c + 1].metadata = None
             /\ c \notin reach => task_calls[c + 1] = start_calls[c + 1]
             /\ task_calls[c + 1].task_id = start_calls[c + 1].task_id
             /\ task_calls[c + 1].arguments = start_calls[c + 1].arguments
       /\ Len(task_stubs) = 1
\* C39: clear_all_task_call_metadata(c) terminates, and when it has returned
\* c and every call reachable from c through dependency lists have no
\* metadata while every other call and the lists of tasks and calls are as
\* they were, on every graph of dependencies the store can hold. Termination
\* in its finite form: the recursion is never inside two calls on the same
\* task call at once (the second would find what the first found).
C39_ClearTerminates ==
    /\ \A i, j \in 1..Len(ClearStack) :
          ClearStack[i].call_id = ClearStack[j].call_id => i = j
    /\ C39_Returned => C39_Cleared
\* What holds of the runs that do return.
C39_ClearedOnReturn == C39_Returned => C39_Cleared

\* ------------------------------------------------------------------------
\* The store of quake_engine/src/metadata.rs, which keeps global tasks and
\* subtasks in one vector, under the commands that fill and read it.
\* ------------------------------------------------------------------------

\* How many tasks are registered at most, and the names they take.
MaxOldTasks == 3
OldNames == {"A", "B"}

\* Task::new
OldTask(n, kind) == [name |-> n, kind |-> kind, dependencies |-> <<>>]

\* Metadata::get_task
OldGetTask(tasks, id) == IF id < Len(tasks) THEN Some(tasks[id + 1]) ELSE None

\* Metadata::register_task: the task is pushed, its id is the last index.
OldRegisterTask(tasks, task) == [tasks |-> Append(tasks, task), id |-> Len(tasks)]

\* Metadata::global_tasks: the tasks of kind Global, in order.
IsGlobalTask(t) == t.kind = "Global"
GlobalTasks(tasks) == SelectSeq(tasks, IsGlobalTask)

\* Metadata::get_global_task_id: the position of the first task of that name
\* in the sequence of global tasks, or TaskNotFound.
GetGlobalTaskId(tasks, n) ==
    LET g == GlobalTasks(tasks)
        hits == {i \in 1..Len(g) : g[i].name = n}
    IN IF hits = {} THEN [ok |-> FALSE, id |-> -1, error |-> Some(TaskNotFound(n))]
       ELSE [ok |-> TRUE, id |-> (CHOOSE i \in hits : \A j \in hits : i <= j) - 1,
             error |-> None]

\* Metadata::get_global_task: the task at that id in the whole vector.
GetGlobalTask(tasks, n) ==
    IF GetGlobalTaskId(tasks, n).ok
    THEN Some(tasks[GetGlobalTaskId(tasks, n).id + 1]) ELSE None

OldInit ==
    /\ Dormant("old_only")
    /\ task_stubs = <<>>
    /\ task_calls = <<>>
    /\ SideIdle

\* def-task with one block: the task is registered at once.
OldDefTask ==
    /\ phase = "old_only"
    /\ scopes = {}
    /\ Len(task_stubs) < MaxOldTasks
    /\ \E n \in OldNames :
          task_stubs' = OldRegisterTask(task_stubs, OldTask(n, "Global")).tasks
    /\ UNCHANGED <<inputVars, sideVars, cliVars, files, phase, parse_idx, errors,
                   task_calls, scopeVars, frames, root_call, populated, schedVars, result>>

\* def-task with a decl block: the scope of the new task is pushed and the
\* decl block is evaluated.
OldDefTaskDecl ==
    /\ phase = "old_only"
    /\ scopes = {}
    /\ Len(task_stubs) < MaxOldTasks
    /\ \E n \in OldNames : scopes' = {[task |-> OldTask(n, "Global")]}
    /\ UNCHANGED <<inputVars, sideVars, cliVars, files, phase, parse_idx, errors,
                   storeVars, scope_var, frames, root_call, populated, schedVars, result>>

\* subtask in the decl block: the subtask is registered and its id is pushed
\* onto the dependencies of the task being declared.
OldSubtask ==
    /\ phase = "old_only"
    /\ scopes # {}
    /\ Len(task_stubs) + 1 < MaxOldTasks
    /\ \E n \in OldNames, sc \in scopes :
          LET r == OldRegisterTask(task_stubs, OldTask(n, "Subtask"))
          IN /\ Len(sc.task.dependencies) < MaxDeps
             /\ task_stubs' = r.tasks
             /\ scopes' = {[sc EXCEPT !.task.dependencies = Append(@, r.id)]}
    /\ UNCHANGED <<inputVars, sideVars, cliVars, files, phase, parse_idx, errors,
                   task_calls, scope_var, frames, root_call, populated, schedVars, result>>

\* depends in the decl block: the id get_global_task_id gives for the name is
\* pushed onto the dependencies of the task being declared; TaskNotFound ends
\* the evaluation. The log keeps the name asked for and the id given.
OldDepends ==
    /\ phase = "old_only"
    /\ scopes # {}
    /\ \E n \in OldNames, sc \in scopes :
          LET r == GetGlobalTaskId(task_stubs, n)
          IN /\ Len(sc.task.dependencies) < MaxDeps
             /\ IF r.ok
                THEN /\ scopes' = {[sc EXCEPT !.task.dependencies = Append(@, r.id)]}
                     /\ log' = Append(log, <<n, r.id>>)
                     /\ UNCHANGED <<phase, errors, result>>
                ELSE /\ errors' = Append(errors, Unwrap(r.error))
                     /\ phase' = "exit"
                     /\ result' = "EvalFailed"
                     /\ UNCHANGED <<scopes, log>>
    /\ UNCHANGED <<inputVars, sideVars, cliVars, files, parse_idx, storeVars, scope_var,
                   frames, root_call, populated, build_tree, task_iter, handles, ctrlc,
                   task_pool, failed_task>>

\* The decl block has been evaluated: the scope is popped and its task is
\* registered, after the subtasks of the block.
OldDefTaskEnd ==
    /\ phase = "old_only"
    /\ \E sc \in scopes :
          task_stubs' = OldRegisterTask(task_stubs, sc.task).tasks
    /\ scopes' = {}
    /\ UNCHANGED <<inputVars, sideVars, cliVars, files, phase, parse_idx, errors,
                   task_calls, scope_var, frames, root_call, populated, schedVars, result>>

OldNext == OldDefTask \/ OldDefTaskDecl \/ OldSubtask \/ OldDepends \/ OldDefTaskEnd

OldSpec == OldInit /\ [][OldNext]_vars

\* ---------------------------------------------------------------- C40
C40_HasGlobal(n) ==
    \E i \in 1..Len(task_stubs) : task_stubs[i].kind = "Global" /\ task_stubs[i].name = n
C40_IsGlobalNamed(o, n) == IsSome(o) /\ Unwrap(o).kind = "Global" /\ Unwrap(o).name = n
\* C40: in the store that mixes global tasks and subtasks, the id
\* get_global_task_id gives for a name is the id under which the global task
\* of that name was registered: get_task on it, and get_global_task, give a
\* global task of that name, whatever the order in which global tasks and
\* subtasks were registered; TaskNotFound is given exactly when no global
\* task has the name. The same holds of every id depends has recorded.
C40_GlobalTaskId ==
    /\ \A n \in OldNames :
          LET r == GetGlobalTaskId(task_stubs, n)
          IN IF C40_HasGlobal(n)
             THEN /\ r.ok
                  /\ C40_IsGlobalNamed(OldGetTask(task_stubs, r.id), n)
                  /\ C40_IsGlobalNamed(GetGlobalTask(task_stubs, n), n)
             ELSE ~r.ok /\ r.error = Some(TaskNotFound(n))
    /\ \A k \in 1..Len(log) :
          C40_IsGlobalNamed(OldGetTask(task_stubs, log[k][2]), log[k][1])
\* The part of the claim about TaskNotFound and about the kind-blind cases.
C40_NotFoundExactly ==
    \A n \in OldNames : GetGlobalTaskId(task_stubs, n).ok <=> C40_HasGlobal(n)

====
